---- MODULE Spec2Model ----
(***************************************************************************)
(* State-machine model of the ticket bot: the object store (PostgresDB),   *)
(* the ticket lifecycle handlers (TicketHandler), the setup wizard         *)
(* (SetupWizardHandler) and the template import command.                   *)
(*                                                                         *)
(* Every awaited call of a handler is one step of a handler process, so    *)
(* that independent interactions interleave between await points as they   *)
(* do on the event loop.  A store write that the code does not await is a  *)
(* pending write that lands at any later moment.                           *)
(***************************************************************************)
EXTENDS Naturals, Integers, Sequences, FiniteSets, TLC

VARIABLES
  panels,     \* store rows of type 'panel': panel number -> PanelData
  tickets,    \* store rows of type 'ticket': ticket number -> TicketData
  channels,   \* platform: channel id -> [name, parent, ownerAccess, overwrite]
  procs,      \* handler slot -> the invocation running in it (pc "idle": none)
  ops,        \* handler invocations started so far
  reports,    \* history: <<reply, record>> -> how many handlers have ended with it
  modals,     \* intake modals shown and not yet submitted: <<user, panel>>
  preClose,   \* history: ticket -> welcomeMessageId stored when its last Close committed
  preClaim,   \* history: ticket -> channel name when its last Claim renamed the channel
  overlap,    \* history: TRUE once two handlers have been in flight together
  autosaves,  \* store rows of type 'autosave': user -> the draft (AutosaveData.data)
  inflight,   \* store writes issued without await and not yet applied
  posted,     \* platform: panel message id -> what the message shows
  session,    \* history: the wizard edits handled since the draft was last dropped
  now,        \* the clock (Date.now()), in seconds
  lastChannelOperation,  \* TicketHandler.lastChannelOperation: channel id -> time
  issued      \* history: channel id -> when operation() was last called on it, and
              \* whether a call ever came sooner than the delay after the one before

ticketVars == <<tickets, channels, modals, preClose, preClaim>>
wizardVars == <<autosaves, inflight, posted, session>>
governorVars == <<now, lastChannelOperation, issued>>
vars == <<panels, procs, ops, reports, overlap, ticketVars, wizardVars, governorVars>>

(***************************************************************************)
(* Bounds of the model.                                                    *)
(***************************************************************************)
MaxOps == 4        \* handler invocations in one behaviour
MaxConc == 2       \* handlers in flight at the same time

(***************************************************************************)
(* Optional values (undefined / null in the source).                       *)
(***************************************************************************)
None == <<>>
Some(x) == <<x>>
IsSet(o) == o # <<>>
Val(o) == o[1]

Put(f, k, v) == [x \in (DOMAIN f) \cup {k} |-> IF x = k THEN v ELSE f[x]]
Drop(f, k) == [x \in (DOMAIN f) \ {k} |-> f[x]]

SetMax(S) == CHOOSE m \in S : \A x \in S : x <= m

(***************************************************************************)
(* Strings as sequences of characters.                                     *)
(***************************************************************************)
UpperAlpha == <<"A","B","C","D","E","F","G","H","I","J","K","L","M",
                "N","O","P","Q","R","S","T","U","V","W","X","Y","Z">>
LowerAlpha == <<"a","b","c","d","e","f","g","h","i","j","k","l","m",
                "n","o","p","q","r","s","t","u","v","w","x","y","z">>
Digits == {"0","1","2","3","4","5","6","7","8","9"}

Range(s) == {s[i] : i \in DOMAIN s}

\* String.prototype.toLowerCase, one character
LowerChar(c) ==
  IF c \in Range(UpperAlpha)
    THEN LowerAlpha[CHOOSE i \in DOMAIN UpperAlpha : UpperAlpha[i] = c]
    ELSE c

toLowerCase(s) == [i \in DOMAIN s |-> LowerChar(s[i])]

\* the character class [a-z0-9-]
InNameClass(c) == c \in Range(LowerAlpha) \cup Digits \cup {"-"}

RECURSIVE StripOther(_)
\* replace(/[^a-z0-9-]/g, '')
StripOther(s) ==
  IF s = <<>> THEN <<>>
  ELSE (IF InNameClass(Head(s)) THEN <<Head(s)>> ELSE <<>>) \o StripOther(Tail(s))

\* replace(/[^a-z0-9-]/g, '-')
DashOther(s) == [i \in DOMAIN s |-> IF InNameClass(s[i]) THEN s[i] ELSE "-"]

startsWith(s, pre) ==
  /\ Len(pre) <= Len(s)
  /\ SubSeq(s, 1, Len(pre)) = pre

\* String.prototype.replace with a string pattern: the first occurrence only
replace(s, pat, rep) ==
  LET hits == {i \in 1..(Len(s) - Len(pat) + 1) : SubSeq(s, i, i + Len(pat) - 1) = pat}
  IN IF hits = {} THEN s
     ELSE LET i == CHOOSE j \in hits : \A k \in hits : j <= k
          IN SubSeq(s, 1, i - 1) \o rep \o SubSeq(s, i + Len(pat), Len(s))

TicketPre == <<"t","i","c","k","e","t","-">>
ClaimedPre == <<"c","l","a","i","m","e","d","-">>
ClosedPre == <<"c","l","o","s","e","d","-">>

(***************************************************************************)
(* The guild: its members and what they hold.                              *)
(***************************************************************************)
Users == {"u1", "s1"}
StaffRole == "role-staff"

username(u) == IF u = "u1" THEN <<"a", ".", "b">> ELSE <<"M", "o">>
HasRole(u, r) == u = "s1" /\ r = StaffRole
\* a1 holds the Manage Channels permission and no staff role
Members == Users \cup {"a1"}
HasManageChannels(u) == u = "a1"

(***************************************************************************)
(* Records of the store.                                                   *)
(***************************************************************************)
FirstId == 1000    \* ids start after this number (generateTicketId, generatePanelId)
Now == "ts"        \* new Date().toISOString(): a time stamp; only set or unset matters

PanelConfigs == {
  [questions |-> <<>>,         closeCategory |-> Some("cat-closed"), allowOwnerClose |-> TRUE],
  [questions |-> <<"issue?">>, closeCategory |-> None,               allowOwnerClose |-> FALSE] }

\* a Panel as finishSetup commits it for a new panel
CommittedPanel(id, cfg) ==
  [ id |-> id, name |-> Some("Support"), channel |-> Some("chan-panel"),
    openCategory |-> Some("cat-open"), closeCategory |-> cfg.closeCategory,
    staffRole |-> Some(StaffRole), logsChannel |-> None, transcriptChannel |-> None,
    label |-> "Open Ticket", emoji |-> "module", color |-> "Primary",
    description |-> "Click below to open a ticket.",
    openMessage |-> "Thank you for contacting support.",
    questions |-> cfg.questions, customQuestions |-> <<>>,
    claimable |-> TRUE, allowOwnerClose |-> cfg.allowOwnerClose, enabled |-> TRUE,
    messageId |-> Some(1), ticketsCreated |-> 0,
    userPermissions |-> {}, staffPermissions |-> {} ]

NewTicket(id, owner, panelId, channelId) ==
  [ id |-> id, owner |-> owner, panelId |-> panelId, channelId |-> channelId,
    state |-> "open", claimedBy |-> None, closedAt |-> None,
    welcomeMessageId |-> None, closeMessageId |-> None ]

\* db.get(id): null when no row has the id
Get(table, id) == IF id \in DOMAIN table THEN Some(table[id]) ELSE None

\* generateTicketId / generatePanelId: one more than the largest stored number
GenerateId(table) ==
  IF DOMAIN table = {} THEN FirstId + 1 ELSE SetMax(DOMAIN table) + 1

(***************************************************************************)
(* TicketHandler.safeChannelOperation, the rate governor: the clock, the   *)
(* time of the last operation on each channel, and the calls in progress.  *)
(***************************************************************************)
MinDelay == 2      \* minDelay: number = 2000, in seconds
Timeout == 10      \* setTimeout(..., 10000), in seconds
MaxTime == 14      \* the clock stops here

\* no governed call has been made
GovernorIdle == now = 1 /\ lastChannelOperation = <<>> /\ issued = <<>>

(***************************************************************************)
(* Handler processes.                                                      *)
(***************************************************************************)
Slots == 1..MaxConc

Active == {i \in Slots : procs[i].pc # "idle"}

NewProc(kind, user, arg) ==
  [ kind |-> kind, pc |-> "start", user |-> user, arg |-> arg,
    panel |-> None, ticket |-> None, data |-> None, row |-> None, tid |-> 0, chan |-> 0,
    newName |-> <<>>, renameOk |-> TRUE, moveOk |-> TRUE ]

Idle == [NewProc("", "", 0) EXCEPT !.pc = "idle"]

\* the replies of a handler that did not find the record it looked up; "silent" is
\* a return without any reply
NotFound == {"ticket_not_found", "panel_not_found", "silent"}

\* the ends of a transcript generation, on demand or after a Close: "logged" when
\* the transcript was also sent to the panel's logs channel
Transcripts == {"transcript_sent", "transcript_logged", "auto_sent", "auto_logged"}

Counted ==
  {"created", "closed", "reopened", "claimed", "unclaimed", "rejected", "create_failed"}
    \cup NotFound \cup Transcripts

Count(reply, id) == IF <<reply, id>> \in DOMAIN reports THEN reports[<<reply, id>>] ELSE 0

Report(reply, id) ==
  reports' = IF reply \in Counted THEN Put(reports, <<reply, id>>, Count(reply, id) + 1)
             ELSE reports

At(i, pc) == procs[i].pc = pc

\* slot i moves on to its next await
Step(i, p) == procs' = [procs EXCEPT ![i] = p] /\ UNCHANGED reports

\* slot i replies and its handler returns
Ends(i, reply) == procs' = [procs EXCEPT ![i] = Idle] /\ Report(reply, procs[i].arg)

\* a new invocation arrives in the first free slot and runs up to its first await:
\* it goes on as p, or returns at once with a reply
Start(p, reply) ==
  /\ ops < MaxOps
  /\ Active # Slots
  /\ ops' = ops + 1
  /\ overlap' = (overlap \/ Active # {})
  /\ LET i == CHOOSE j \in Slots \ Active : \A k \in Slots \ Active : j <= k
     IN IF reply = "" THEN procs' = [procs EXCEPT ![i] = p] /\ UNCHANGED reports
        ELSE UNCHANGED procs /\ Report(reply, p.arg)

\* isStaff of closeTicket and claimTicket
isStaff(u, panel) ==
  HasRole(u, IF IsSet(panel.staffRole) THEN Val(panel.staffRole) ELSE "") \/ HasManageChannels(u)

(***************************************************************************)
(* TicketHandler.openTicket, handleQuestionModal, createTicketChannel      *)
(***************************************************************************)
\* the channel name of a new ticket
TicketChannelName(u) == StripOther(toLowerCase(TicketPre \o username(u)))

\* the uniqueness filter of openTicket
existingTickets(u, panelId) ==
  {t \in DOMAIN tickets :
     tickets[t].owner = u /\ tickets[t].state = "open" /\ tickets[t].panelId = panelId}

\* the permissions the wizard offers and mapPermissionsToFlags knows
PermissionNames ==
  {"ViewChannel", "SendMessages", "ReadMessageHistory", "AttachFiles", "EmbedLinks",
   "AddReactions", "UseExternalEmojis", "MentionEveryone", "ManageMessages",
   "ManageChannels", "CreatePublicThreads", "CreatePrivateThreads",
   "SendMessagesInThreads", "UseApplicationCommands"}

\* permissions.map(perm => permissionMap[perm]).filter(flag => flag !== undefined)
mapPermissionsToFlags(permissions) == permissions \cap PermissionNames

\* the owner's overwrite when no user permissions are configured
DefaultOverwrite == {"ViewChannel", "SendMessages", "ReadMessageHistory"}

\* the allow list of the owner's overwrite at creation
CreatedOverwrite(userPermissions) ==
  IF userPermissions # {} THEN mapPermissionsToFlags(userPermissions) ELSE DefaultOverwrite

\* the Open button: db.get(panelId)
OpenTicket(u, panelId) ==
  /\ LET panel == Get(panels, panelId)
     IN Start([NewProc("open", u, panelId) EXCEPT !.pc = "open_check", !.panel = panel],
              IF IsSet(panel) THEN "" ELSE "panel_not_found")
  /\ UNCHANGED <<governorVars, wizardVars, panels, tickets, channels, modals, preClose, preClaim>>

\* a variant that never asks the intake questions
NeedsModalNever(panel) == FALSE

\* panel.questions && panel.questions.length > 0
NeedsModal(panel) == Len(panel.questions) > 0

\* getAllTickets + filter, then the modal or the creation
OpenCheck(i) ==
  /\ At(i, "open_check")
  /\ LET p == procs[i] IN
       IF existingTickets(p.user, p.arg) # {}
         THEN Ends(i, "already_open") /\ UNCHANGED modals
       ELSE IF NeedsModal(Val(p.panel))
         THEN Ends(i, "modal_shown") /\ modals' = modals \cup {<<p.user, p.arg>>}
       ELSE Step(i, [p EXCEPT !.pc = "create_genId"]) /\ UNCHANGED modals
  /\ UNCHANGED <<governorVars, wizardVars, panels, tickets, channels, ops, preClose, preClaim, overlap>>

\* the intake modal is submitted: handleQuestionModal
QuestionModal(u, panelId) ==
  /\ <<u, panelId>> \in modals
  /\ modals' = modals \ {<<u, panelId>>}
  /\ LET panel == Get(panels, panelId)
     IN Start([NewProc("answer", u, panelId) EXCEPT !.pc = "create_genId", !.panel = panel],
              IF IsSet(panel) THEN "" ELSE "silent")
  /\ UNCHANGED <<governorVars, wizardVars, panels, tickets, channels, preClose, preClaim>>

\* generateTicketId
CreateGenId(i) ==
  /\ At(i, "create_genId")
  /\ Step(i, [procs[i] EXCEPT !.pc = "create_channel", !.tid = GenerateId(tickets)])
  /\ UNCHANGED <<governorVars, wizardVars, panels, tickets, channels, ops, modals, preClose, preClaim, overlap>>

\* guild.channels.create
CreateChannel(i) ==
  /\ At(i, "create_channel")
  /\ LET p == procs[i]
         c == Cardinality(DOMAIN channels) + 1
     IN /\ channels' = Put(channels, c,
                           [name |-> TicketChannelName(p.user),
                            parent |-> Val(Val(p.panel).openCategory),
                            ownerAccess |-> TRUE, welcome |-> None, buttons |-> "none",
                            overwrite |-> CreatedOverwrite(Val(p.panel).userPermissions)])
        /\ Step(i, [p EXCEPT !.pc = "create_saveTicket", !.chan = c,
                             !.ticket = Some(NewTicket(p.tid, p.user, p.arg, c))])
  /\ UNCHANGED <<governorVars, wizardVars, panels, tickets, ops, modals, preClose, preClaim, overlap>>

\* db.save(ticket)
CreateSaveTicket(i) ==
  /\ At(i, "create_saveTicket")
  /\ tickets' = Put(tickets, procs[i].tid, Val(procs[i].ticket))
  /\ Step(i, [procs[i] EXCEPT !.pc = "create_savePanel"])
  /\ UNCHANGED <<governorVars, wizardVars, panels, channels, ops, modals, preClose, preClaim, overlap>>

\* panel.ticketsCreated = (panel.ticketsCreated || 0) + 1, on the handler's copy
IncrementedPanel(panel) == [panel EXCEPT !.ticketsCreated = panel.ticketsCreated + 1]

\* db.save(panel)
CreateSavePanel(i) ==
  /\ At(i, "create_savePanel")
  /\ LET p == procs[i]
         np == IncrementedPanel(Val(p.panel))
     IN /\ panels' = Put(panels, np.id, np)
        /\ Step(i, [p EXCEPT !.pc = "create_welcome", !.panel = Some(np)])
  /\ UNCHANGED <<governorVars, wizardVars, tickets, channels, ops, modals, preClose, preClaim, overlap>>

\* channel.send of the welcome message; its id goes onto the handler's ticket
CreateWelcome(i) ==
  /\ At(i, "create_welcome")
  /\ LET p == procs[i] IN
       /\ channels' = [channels EXCEPT ![p.chan].welcome = Some(p.chan),
                                       ![p.chan].buttons = "open"]
       /\ Step(i, [p EXCEPT !.pc = "create_saveWelcome",
                            !.ticket = Some([Val(p.ticket) EXCEPT !.welcomeMessageId = Some(p.chan)])])
  /\ UNCHANGED <<governorVars, wizardVars, panels, tickets, ops, modals, preClose, preClaim, overlap>>

\* db.save(ticket) with the welcome message id, then "Ticket created"
CreateSaveWelcome(i) ==
  /\ At(i, "create_saveWelcome")
  /\ tickets' = Put(tickets, procs[i].tid, Val(procs[i].ticket))
  /\ Ends(i, "created")
  /\ UNCHANGED <<governorVars, wizardVars, panels, channels, ops, modals, preClose, preClaim, overlap>>

\* the awaited calls inside the try block of createTicketChannel
CreatePcs == {"create_genId", "create_channel", "create_saveTicket",
              "create_savePanel", "create_welcome", "create_saveWelcome"}

\* one of them throws: the catch replies "Failed to create ticket. Please try again."
CreateFails(i) ==
  /\ procs[i].pc \in CreatePcs
  /\ Ends(i, "create_failed")
  /\ UNCHANGED <<governorVars, wizardVars, panels, tickets, channels, ops, modals, preClose, preClaim, overlap>>

(***************************************************************************)
(* TicketHandler.closeTicket                                               *)
(***************************************************************************)
\* the channel name Close asks for
ClosedName(name) ==
  IF startsWith(name, ClaimedPre) THEN replace(name, ClaimedPre, ClosedPre \o ClaimedPre)
  ELSE IF startsWith(name, TicketPre) THEN replace(name, TicketPre, ClosedPre \o TicketPre)
  ELSE ClosedPre \o name

\* the permission check of closeTicket: TRUE when the request is turned away
CloseDenied(u, ticket, panel) ==
  ticket.owner = u /\ panel.allowOwnerClose = FALSE /\ ~isStaff(u, panel)

\* PermissionHelper.canCloseTicket: staff always, the owner unless the panel forbids it
canCloseTicket(u, ticket, panel) ==
  isStaff(u, panel) \/ (ticket.owner = u /\ panel.allowOwnerClose # FALSE)

\* the reply of a lifecycle handler's first read, "" when it goes on
FirstCheck(ticket, stop, reply) ==
  IF ~IsSet(ticket) THEN "ticket_not_found"
  ELSE IF stop THEN reply
  ELSE ""

\* db.get(ticketId) and the already-closed check
CloseTicket(u, t) ==
  /\ LET ticket == Get(tickets, t)
     IN Start([NewProc("close", u, t) EXCEPT !.pc = "close_getPanel", !.ticket = ticket],
              FirstCheck(ticket, Val(ticket).state = "closed", "already_closed"))
  /\ UNCHANGED <<governorVars, wizardVars, panels, tickets, channels, modals, preClose, preClaim>>

\* db.get(ticket.panelId) and the permission check
CloseGetPanel(i) ==
  /\ At(i, "close_getPanel")
  /\ LET p == procs[i]
         panel == Get(panels, Val(p.ticket).panelId)
     IN IF ~IsSet(panel) THEN Ends(i, "panel_not_found")
        ELSE IF CloseDenied(p.user, Val(p.ticket), Val(panel)) THEN Ends(i, "denied")
        ELSE Step(i, [p EXCEPT !.pc = "close_fetch", !.panel = panel])
  /\ UNCHANGED <<governorVars, wizardVars, panels, tickets, channels, ops, modals, preClose, preClaim, overlap>>

\* client.channels.fetch and the new name
CloseFetch(i) ==
  /\ At(i, "close_fetch")
  /\ LET p == procs[i]
         c == Val(p.ticket).channelId
     IN IF c \notin DOMAIN channels THEN Ends(i, "channel_not_found")
        ELSE Step(i, [p EXCEPT !.pc = "close_rename", !.chan = c,
                               !.newName = ClosedName(channels[c].name)])
  /\ UNCHANGED <<governorVars, wizardVars, panels, tickets, channels, ops, modals, preClose, preClaim, overlap>>

\* safeChannelOperation(channel.setName): the call succeeds, or fails or times out
SetNameSafely(i, next) ==
  \E ok \in BOOLEAN :
    LET p == procs[i] IN
      /\ channels' = IF ok THEN [channels EXCEPT ![p.chan].name = p.newName] ELSE channels
      /\ Step(i, [p EXCEPT !.pc = next, !.renameOk = ok])

\* safeChannelOperation(channel.setParent)
SetParentSafely(i, category, next) ==
  \E ok \in BOOLEAN :
    LET p == procs[i] IN
      /\ channels' = IF ok THEN [channels EXCEPT ![p.chan].parent = category] ELSE channels
      /\ Step(i, [p EXCEPT !.pc = next, !.moveOk = ok])

CloseRename(i) ==
  /\ At(i, "close_rename")
  /\ SetNameSafely(i, IF IsSet(Val(procs[i].panel).closeCategory) THEN "close_move" ELSE "close_perm")
  /\ UNCHANGED <<governorVars, wizardVars, panels, tickets, ops, modals, preClose, preClaim, overlap>>

CloseMove(i) ==
  /\ At(i, "close_move")
  /\ SetParentSafely(i, Val(Val(procs[i].panel).closeCategory), "close_perm")
  /\ UNCHANGED <<governorVars, wizardVars, panels, tickets, ops, modals, preClose, preClaim, overlap>>

\* channel.permissionOverwrites.delete(ticket.owner)
ClosePerm(i) ==
  /\ At(i, "close_perm")
  /\ channels' = [channels EXCEPT ![procs[i].chan].ownerAccess = FALSE,
                                  ![procs[i].chan].overwrite = {}]
  /\ Step(i, [procs[i] EXCEPT !.pc = "close_save"])
  /\ UNCHANGED <<governorVars, wizardVars, panels, tickets, ops, modals, preClose, preClaim, overlap>>

\* ticket.state = 'closed'; ticket.closedAt = now, on the handler's copy
ClosedTicket(ticket) == [ticket EXCEPT !.state = "closed", !.closedAt = Some(Now)]

\* a Close that gives up the state change when the rename or the move failed
CloseSaveIfRenamed(i) ==
  /\ At(i, "close_save")
  /\ LET p == procs[i]
         nt == ClosedTicket(Val(p.ticket))
         done == p.renameOk /\ p.moveOk
     IN /\ tickets' = IF done THEN Put(tickets, nt.id, nt) ELSE tickets
        /\ preClose' = Put(preClose, nt.id, Get(tickets, nt.id))
        /\ Step(i, [p EXCEPT !.pc = "close_update", !.ticket = Some(IF done THEN nt ELSE Val(p.ticket))])
  /\ UNCHANGED <<governorVars, wizardVars, panels, channels, ops, modals, preClaim, overlap>>

\* db.save(ticket)
CloseSave(i) ==
  /\ At(i, "close_save")
  /\ LET p == procs[i]
         nt == ClosedTicket(Val(p.ticket))
     IN /\ tickets' = Put(tickets, nt.id, nt)
        /\ preClose' = Put(preClose, nt.id, Get(tickets, nt.id))
        /\ Step(i, [p EXCEPT !.pc = "close_update", !.ticket = Some(nt)])
  /\ UNCHANGED <<governorVars, wizardVars, panels, channels, ops, modals, preClaim, overlap>>

\* the welcome message's buttons, when the ticket names a message the channel has
EditWelcome(chan, ticket, buttons) ==
  IF IsSet(ticket.welcomeMessageId) /\ channels[chan].welcome = ticket.welcomeMessageId
    THEN [channels EXCEPT ![chan].buttons = buttons]
    ELSE channels

\* updateWelcomeMessageForClosed, then "Ticket closed successfully."
CloseUpdate(i) ==
  /\ At(i, "close_update")
  /\ channels' = EditWelcome(procs[i].chan, Val(procs[i].ticket), "closed")
  /\ Ends(i, "closed")
  /\ UNCHANGED <<governorVars, wizardVars, panels, tickets, ops, modals, preClose, preClaim, overlap>>

(***************************************************************************)
(* TicketHandler.reopenTicket                                              *)
(***************************************************************************)
\* a Reopen that knows the unclaimed form only
ReopenedTicketName(name) ==
  LET bare == replace(name, ClosedPre, <<>>)
  IN IF startsWith(bare, TicketPre) THEN bare ELSE TicketPre \o bare

\* the channel name Reopen asks for
ReopenedName(name) ==
  IF startsWith(name, ClosedPre \o ClaimedPre) THEN replace(name, ClosedPre \o ClaimedPre, ClaimedPre)
  ELSE IF startsWith(name, ClosedPre \o TicketPre) THEN replace(name, ClosedPre \o TicketPre, TicketPre)
  ELSE IF startsWith(name, ClosedPre) THEN replace(name, ClosedPre, <<>>)
  ELSE IF startsWith(name, TicketPre) THEN name
  ELSE TicketPre \o name

\* db.get(ticketId) and the already-open check
ReopenTicket(u, t) ==
  /\ LET ticket == Get(tickets, t)
     IN Start([NewProc("reopen", u, t) EXCEPT !.pc = "reopen_getPanel", !.ticket = ticket],
              FirstCheck(ticket, Val(ticket).state = "open", "already_open"))
  /\ UNCHANGED <<governorVars, wizardVars, panels, tickets, channels, modals, preClose, preClaim>>

\* db.get(ticket.panelId)
ReopenGetPanel(i) ==
  /\ At(i, "reopen_getPanel")
  /\ LET p == procs[i]
         panel == Get(panels, Val(p.ticket).panelId)
     IN IF ~IsSet(panel) THEN Ends(i, "panel_not_found")
        ELSE Step(i, [p EXCEPT !.pc = "reopen_fetch", !.panel = panel])
  /\ UNCHANGED <<governorVars, wizardVars, panels, tickets, channels, ops, modals, preClose, preClaim, overlap>>

\* client.channels.fetch and the new name
ReopenFetch(i) ==
  /\ At(i, "reopen_fetch")
  /\ LET p == procs[i]
         c == Val(p.ticket).channelId
     IN IF c \notin DOMAIN channels THEN Ends(i, "channel_not_found")
        ELSE Step(i, [p EXCEPT !.pc = "reopen_rename", !.chan = c,
                               !.newName = ReopenedName(channels[c].name)])
  /\ UNCHANGED <<governorVars, wizardVars, panels, tickets, channels, ops, modals, preClose, preClaim, overlap>>

ReopenRename(i) ==
  /\ At(i, "reopen_rename")
  /\ SetNameSafely(i, IF IsSet(Val(procs[i].panel).openCategory) THEN "reopen_move" ELSE "reopen_perm")
  /\ UNCHANGED <<governorVars, wizardVars, panels, tickets, ops, modals, preClose, preClaim, overlap>>

ReopenMove(i) ==
  /\ At(i, "reopen_move")
  /\ SetParentSafely(i, Val(Val(procs[i].panel).openCategory), "reopen_perm")
  /\ UNCHANGED <<governorVars, wizardVars, panels, tickets, ops, modals, preClose, preClaim, overlap>>

\* the permissions Reopen sets to true on the owner's overwrite
ReopenedOverwrite(userPermissions) ==
  IF userPermissions # {}
    THEN {"ViewChannel"} \cup mapPermissionsToFlags(userPermissions)
    ELSE DefaultOverwrite

\* channel.permissionOverwrites.create(ticket.owner, ...)
ReopenPerm(i) ==
  /\ At(i, "reopen_perm")
  /\ channels' = [channels EXCEPT
                    ![procs[i].chan].ownerAccess = TRUE,
                    ![procs[i].chan].overwrite = ReopenedOverwrite(Val(procs[i].panel).userPermissions)]
  /\ Step(i, [procs[i] EXCEPT !.pc = "reopen_save"])
  /\ UNCHANGED <<governorVars, wizardVars, panels, tickets, ops, modals, preClose, preClaim, overlap>>

\* a Reopen that leaves the closing time on the record
ReopenedKeepingClosedAt(ticket) == [ticket EXCEPT !.state = "open", !.closeMessageId = None]

\* ticket.state = 'open'; closedAt and closeMessageId cleared, on the handler's copy
ReopenedTicket(ticket) ==
  [ticket EXCEPT !.state = "open", !.closedAt = None, !.closeMessageId = None]

\* db.save(ticket)
ReopenSave(i) ==
  /\ At(i, "reopen_save")
  /\ LET p == procs[i]
         nt == ReopenedTicket(Val(p.ticket))
     IN /\ tickets' = Put(tickets, nt.id, nt)
        /\ Step(i, [p EXCEPT !.pc = "reopen_update", !.ticket = Some(nt)])
  /\ UNCHANGED <<governorVars, wizardVars, panels, channels, ops, modals, preClose, preClaim, overlap>>

\* updateWelcomeMessageButtons, then "Ticket reopened successfully."
ReopenUpdate(i) ==
  /\ At(i, "reopen_update")
  /\ channels' = EditWelcome(procs[i].chan, Val(procs[i].ticket), "open")
  /\ Ends(i, "reopened")
  /\ UNCHANGED <<governorVars, wizardVars, panels, tickets, ops, modals, preClose, preClaim, overlap>>

(***************************************************************************)
(* PostgresDB.save throws when the store cannot be reached or the query    *)
(* fails.                                                                  *)
(***************************************************************************)
SavePcs == {"close_save", "reopen_save", "claim_save", "unclaim_save"}

\* db.save(ticket) throws: closeTicket and reopenTicket catch it and reply
\* "Failed to close/reopen ticket", claimTicket and unclaimTicket let execute
\* catch it and send the error embed; the store keeps what it had
SaveFails(i) ==
  /\ procs[i].pc \in SavePcs
  /\ Ends(i, "failed")
  /\ UNCHANGED <<governorVars, wizardVars, panels, tickets, channels, ops, modals, preClose, preClaim, overlap>>

(***************************************************************************)
(* TicketHandler.claimTicket, unclaimTicket                                *)
(***************************************************************************)
ClaimedName(u) == DashOther(toLowerCase(ClaimedPre \o username(u)))
UnclaimedName(owner) == DashOther(toLowerCase(TicketPre \o username(owner)))

\* channel.setName inside its own try/catch: the call succeeds or fails
SetNameBestEffort(c, name) ==
  \E ok \in BOOLEAN :
    channels' = IF ok /\ c \in DOMAIN channels
                  THEN [channels EXCEPT ![c].name = name] ELSE channels

\* db.get(ticketId) and the already-claimed check
ClaimTicket(u, t) ==
  /\ LET ticket == Get(tickets, t)
     IN Start([NewProc("claim", u, t) EXCEPT !.pc = "claim_getPanel", !.ticket = ticket],
              FirstCheck(ticket, IsSet(Val(ticket).claimedBy), "already_claimed"))
  /\ UNCHANGED <<governorVars, wizardVars, panels, tickets, channels, modals, preClose, preClaim>>

\* db.get(ticket.panelId) and the staff check
ClaimGetPanel(i) ==
  /\ At(i, "claim_getPanel")
  /\ LET p == procs[i]
         panel == Get(panels, Val(p.ticket).panelId)
     IN IF ~IsSet(panel) THEN Ends(i, "panel_not_found")
        ELSE IF ~isStaff(p.user, Val(panel)) THEN Ends(i, "denied")
        ELSE Step(i, [p EXCEPT !.pc = "claim_save", !.panel = panel])
  /\ UNCHANGED <<governorVars, wizardVars, panels, tickets, channels, ops, modals, preClose, preClaim, overlap>>

\* ticket.claimedBy = interaction.user.id; db.save(ticket)
ClaimSave(i) ==
  /\ At(i, "claim_save")
  /\ LET p == procs[i]
         nt == [Val(p.ticket) EXCEPT !.claimedBy = Some(p.user)]
     IN /\ tickets' = Put(tickets, nt.id, nt)
        /\ Step(i, [p EXCEPT !.pc = "claim_rename", !.ticket = Some(nt)])
  /\ UNCHANGED <<governorVars, wizardVars, panels, channels, ops, modals, preClose, preClaim, overlap>>

\* the rename to claimed-<claimer>, the status embed, "You have claimed this ticket."
ClaimRename(i) ==
  /\ At(i, "claim_rename")
  /\ LET p == procs[i]
         c == Val(p.ticket).channelId
     IN /\ SetNameBestEffort(c, ClaimedName(p.user))
        /\ preClaim' = Put(preClaim, p.arg, channels[c].name)
        /\ Ends(i, IF channels'[c].name = ClaimedName(p.user) THEN "claimed" ELSE "claimed_as_was")
  /\ UNCHANGED <<governorVars, wizardVars, panels, tickets, ops, modals, preClose, overlap>>

\* a variant that lets anyone unclaim
UnclaimDeniedNever(u, ticket) == FALSE

\* the claimant check of unclaimTicket: TRUE when the request is turned away
UnclaimDenied(u, ticket) ==
  Val(ticket.claimedBy) # u /\ ~HasManageChannels(u)

\* db.get(ticketId), the not-claimed check and the claimant check
UnclaimTicket(u, t) ==
  /\ LET ticket == Get(tickets, t)
     IN Start([NewProc("unclaim", u, t) EXCEPT !.pc = "unclaim_save", !.ticket = ticket],
              IF ~IsSet(ticket) THEN "ticket_not_found"
              ELSE IF ~IsSet(Val(ticket).claimedBy) THEN "not_claimed"
              ELSE IF UnclaimDenied(u, Val(ticket)) THEN "denied"
              ELSE "")
  /\ UNCHANGED <<governorVars, wizardVars, panels, tickets, channels, modals, preClose, preClaim>>

\* ticket.claimedBy = undefined; db.save(ticket)
UnclaimSave(i) ==
  /\ At(i, "unclaim_save")
  /\ LET p == procs[i]
         nt == [Val(p.ticket) EXCEPT !.claimedBy = None]
     IN /\ tickets' = Put(tickets, nt.id, nt)
        /\ Step(i, [p EXCEPT !.pc = "unclaim_rename", !.ticket = Some(nt)])
  /\ UNCHANGED <<governorVars, wizardVars, panels, channels, ops, modals, preClose, preClaim, overlap>>

\* the rename back to ticket-<owner>, the status embed, "You have unclaimed this ticket."
UnclaimRename(i) ==
  /\ At(i, "unclaim_rename")
  /\ LET p == procs[i]
         c == Val(p.ticket).channelId
         name == UnclaimedName(Val(p.ticket).owner)
     IN /\ SetNameBestEffort(c, name)
        /\ Ends(i, IF channels'[c].name = name THEN "unclaimed" ELSE "unclaimed_as_was")
  /\ UNCHANGED <<governorVars, wizardVars, panels, tickets, ops, modals, preClose, preClaim, overlap>>

(***************************************************************************)
(* SetupWizardHandler: the draft (Autosave) and its edits                  *)
(***************************************************************************)
WizardUsers == {"s1"}

\* the draft getOrCreateAutosave returns when the user has no Autosave
DefaultDraft ==
  [ id |-> None, name |-> None, channel |-> None, openCategory |-> None,
    closeCategory |-> None, staffRole |-> None, logsChannel |-> None,
    transcriptChannel |-> None,
    label |-> "Open Ticket", emoji |-> "module", color |-> "Primary",
    description |-> "Click below to open a ticket.",
    openMessage |-> "Thank you for contacting support. Please describe your issue in detail.",
    questions |-> <<>>, customQuestions |-> <<>>, claimable |-> FALSE,
    allowOwnerClose |-> None, enabled |-> Some(TRUE),
    userPermissions |-> {}, staffPermissions |-> {} ]

\* data: {} : a draft with every field undefined
EmptyDraft ==
  [ DefaultDraft EXCEPT !.label = "", !.emoji = "", !.color = "", !.description = "",
                        !.openMessage = "", !.enabled = None ]

\* getOrCreateAutosave: autosave.data, or the default draft
getOrCreateAutosave(u) ==
  IF u \in DOMAIN autosaves THEN autosaves[u].data ELSE DefaultDraft

\* saveAutosave: a fresh AutosaveData row, written without await
saveAutosave(u, data) ==
  inflight' = Append(inflight, <<"autosave", u, [data |-> data, tempPanel |-> None]>>)

\* the draft handleEditSelect loads from a stored panel
EditDraft(panel) ==
  [ DefaultDraft EXCEPT
      !.id = Some(panel.id), !.name = panel.name, !.channel = panel.channel,
      !.openCategory = panel.openCategory, !.closeCategory = panel.closeCategory,
      !.staffRole = panel.staffRole, !.logsChannel = panel.logsChannel,
      !.transcriptChannel = panel.transcriptChannel,
      !.label = panel.label, !.emoji = panel.emoji, !.color = panel.color,
      !.description = panel.description, !.openMessage = panel.openMessage,
      !.questions = panel.questions, !.claimable = panel.claimable,
      !.enabled = Some(panel.enabled),
      !.userPermissions = panel.userPermissions,
      !.staffPermissions = panel.staffPermissions ]

\* the fields the modelled screens set, and the value the user gives each
EditFields == {"color", "name", "channel"}
EditValue(field) ==
  CASE field = "color" -> "Danger"
    [] field = "name" -> Some("Support")
    [] field = "channel" -> Some("chan-panel")

\* handleColorSelect, handleNameModal, handleChannelSelect: the draft is read
WizardEdit(u, field) ==
  /\ Start([NewProc("edit", u, field) EXCEPT !.pc = "edit_save",
                                             !.data = Some(getOrCreateAutosave(u))], "")
  /\ UNCHANGED <<governorVars, panels, ticketVars, wizardVars>>

\* data.customQuestions.push({ text, type }); data.questions.push(text)
WithQuestion(data, text, type) ==
  [data EXCEPT !.customQuestions = Append(@, [text |-> text, type |-> type]),
               !.questions = Append(@, text)]

\* data.questions.splice(index, 1), index counted from 0
WithoutQuestion(data, index) ==
  [data EXCEPT !.questions = SubSeq(@, 1, index) \o SubSeq(@, index + 2, Len(@))]

\* handleQuestionModal of the wizard: the draft is read, the question goes on
\* the end of both lists
AddQuestion(u, text, type) ==
  /\ Start([NewProc("add-question", u, "questions") EXCEPT
              !.pc = "edit_save",
              !.data = Some(WithQuestion(getOrCreateAutosave(u), text, type))], "")
  /\ UNCHANGED <<governorVars, panels, ticketVars, wizardVars>>

\* handleDeleteQuestion: the draft is read, the selected entry is spliced out
DeleteQuestion(u, index) ==
  /\ index < Len(getOrCreateAutosave(u).questions)
  /\ Start([NewProc("delete-question", u, "questions") EXCEPT
              !.pc = "edit_save",
              !.data = Some(WithoutQuestion(getOrCreateAutosave(u), index))], "")
  /\ UNCHANGED <<governorVars, panels, ticketVars, wizardVars>>

\* handleEditSelect: db.get(panelId)
EditSelect(u, n) ==
  /\ LET panel == Get(panels, n)
     IN Start([NewProc("select", u, n) EXCEPT
                 !.pc = "edit_save",
                 !.data = IF IsSet(panel) THEN Some(EditDraft(Val(panel))) ELSE None],
              IF IsSet(panel) THEN "" ELSE "panel_not_found")
  /\ UNCHANGED <<governorVars, panels, ticketVars, wizardVars>>

\* data.<field> = value; saveAutosave(...)
EditSave(i) ==
  /\ At(i, "edit_save")
  /\ LET p == procs[i]
         data == IF p.kind = "edit"
                   THEN [Val(p.data) EXCEPT ![p.arg] = EditValue(p.arg)]
                   ELSE Val(p.data)
     IN /\ saveAutosave(p.user, data)
        /\ Step(i, [p EXCEPT !.pc = "edit_render", !.data = Some(data)])
  /\ UNCHANGED <<governorVars, panels, ops, overlap, ticketVars, autosaves, posted, session>>

\* the screen is drawn again from the stored draft (show...Menu)
EditRender(i) ==
  /\ At(i, "edit_render")
  /\ session' = Append(session, IF procs[i].kind = "select" THEN "select" ELSE procs[i].arg)
  /\ Ends(i, "shown")
  /\ UNCHANGED <<governorVars, panels, ops, overlap, ticketVars, autosaves, inflight, posted>>

\* a store write issued without await reaches the store
Land(k) ==
  /\ k \in DOMAIN inflight
  /\ LET w == inflight[k] IN
       /\ inflight' = SubSeq(inflight, 1, k - 1) \o SubSeq(inflight, k + 1, Len(inflight))
       /\ IF w[1] = "autosave"
            THEN autosaves' = Put(autosaves, w[2], w[3]) /\ UNCHANGED panels
            ELSE panels' = Put(panels, w[2], w[3]) /\ UNCHANGED autosaves
  /\ UNCHANGED <<governorVars, procs, ops, reports, overlap, ticketVars, posted, session>>

\* cancelSetup: db.deleteAutosave(userId)
CancelSetup(u) ==
  /\ Start([NewProc("cancel", u, 0) EXCEPT !.pc = "cancel_reply"], "")
  /\ autosaves' = Drop(autosaves, u)
  /\ UNCHANGED <<governorVars, panels, ticketVars, inflight, posted, session>>

\* "Setup cancelled. All progress has been discarded."
CancelReply(i) ==
  /\ At(i, "cancel_reply")
  /\ session' = <<"cancel">>
  /\ Ends(i, "cancelled")
  /\ UNCHANGED <<governorVars, panels, ops, overlap, ticketVars, autosaves, inflight, posted>>

(***************************************************************************)
(* SetupWizardHandler.finishSetup                                          *)
(***************************************************************************)
\* a || b on strings: the empty string is falsy
OrElse(a, b) == IF a = "" THEN b ELSE a

\* a validation that forgets the panel name
RequiredMissingButName(data) ==
  ~IsSet(data.channel) \/ ~IsSet(data.openCategory) \/ ~IsSet(data.staffRole)

\* the validation of finishSetup: TRUE when a required field is missing
RequiredMissing(data) ==
  ~IsSet(data.name) \/ ~IsSet(data.channel) \/ ~IsSet(data.openCategory) \/ ~IsSet(data.staffRole)

\* const isEdit = !!data.id && data.id.startsWith('panel:')
isEdit(data) == IsSet(data.id)

\* the complete PanelData finishSetup builds from the draft
FinishedPanel(data, id, count, messageId) ==
  [ id |-> id, name |-> data.name, channel |-> data.channel,
    openCategory |-> data.openCategory, closeCategory |-> data.closeCategory,
    staffRole |-> data.staffRole, logsChannel |-> data.logsChannel,
    transcriptChannel |-> data.transcriptChannel,
    label |-> OrElse(data.label, "Open Ticket"), emoji |-> OrElse(data.emoji, "module"),
    color |-> OrElse(data.color, "Primary"),
    description |-> OrElse(data.description, "Click below to open a ticket."),
    openMessage |-> OrElse(data.openMessage, "Thank you for contacting support."),
    questions |-> data.questions, customQuestions |-> data.customQuestions,
    claimable |-> data.claimable,
    allowOwnerClose |-> (data.allowOwnerClose # Some(FALSE)),
    enabled |-> IF IsSet(data.enabled) THEN Val(data.enabled) ELSE TRUE,
    messageId |-> messageId, ticketsCreated |-> count,
    userPermissions |-> data.userPermissions, staffPermissions |-> data.staffPermissions ]

\* colorMap[panel.color] || ButtonStyle.Primary
ButtonStyleOf(color) ==
  IF color \in {"Primary", "Secondary", "Success", "Danger"} THEN color ELSE "Primary"

\* the panel message: the embed title and the Open button
Rendered(panel) ==
  [ title |-> [emoji |-> panel.emoji, name |-> panel.name],
    label |-> panel.label, style |-> ButtonStyleOf(panel.color), opens |-> panel.id ]

\* the Finish button: the draft is read
FinishSetup(u) ==
  /\ Start([NewProc("finish", u, 0) EXCEPT !.pc = "finish_check",
                                           !.data = Some(getOrCreateAutosave(u))], "")
  /\ UNCHANGED <<governorVars, panels, ticketVars, wizardVars>>

\* the validation, then the panel id: the draft's own, or a generated one
FinishCheck(i) ==
  /\ At(i, "finish_check")
  /\ LET p == procs[i]
         data == Val(p.data)
     IN IF RequiredMissing(data) THEN Ends(i, "rejected")
        ELSE IF isEdit(data)
          THEN Step(i, [p EXCEPT !.pc = "finish_getCount", !.tid = Val(data.id)])
        ELSE Step(i, [p EXCEPT !.pc = "finish_save", !.tid = GenerateId(panels),
                               !.panel = Some(FinishedPanel(data, GenerateId(panels), 0, None))])
  /\ UNCHANGED <<governorVars, panels, ops, overlap, ticketVars, wizardVars>>

\* an edit reads the stored panel twice: for ticketsCreated, then for messageId
FinishReread(i) ==
  /\ procs[i].pc \in {"finish_getCount", "finish_getMsg"}
  /\ LET p == procs[i]
         stored == Get(panels, p.tid)
     IN IF At(i, "finish_getCount")
          THEN Step(i, [p EXCEPT !.pc = "finish_getMsg",
                                 !.panel = Some(FinishedPanel(Val(p.data), p.tid,
                                                  IF IsSet(stored) THEN Val(stored).ticketsCreated ELSE 0,
                                                  None))])
          ELSE Step(i, [p EXCEPT !.pc = "finish_save",
                                 !.panel = Some([Val(p.panel) EXCEPT !.messageId =
                                                   IF IsSet(stored) THEN Val(stored).messageId ELSE None])])
  /\ UNCHANGED <<governorVars, panels, ops, overlap, ticketVars, wizardVars>>

\* await client.db.save(panel)
FinishSave(i) ==
  /\ At(i, "finish_save")
  /\ panels' = Put(panels, procs[i].tid, Val(procs[i].panel))
  /\ Step(i, [procs[i] EXCEPT !.pc = "finish_delete"])
  /\ UNCHANGED <<governorVars, ops, overlap, ticketVars, wizardVars>>

\* await client.db.deleteAutosave(userId)
FinishDelete(i) ==
  /\ At(i, "finish_delete")
  /\ autosaves' = Drop(autosaves, procs[i].user)
  /\ Step(i, [procs[i] EXCEPT !.pc = "finish_deploy"])
  /\ UNCHANGED <<governorVars, panels, ops, overlap, ticketVars, inflight, posted, session>>

\* the panel message is edited, or a new one is sent and its id saved without
\* await; a platform failure is logged and the handler goes on, except that any
\* failure to fetch or edit the old message leads to the question
FinishDeploy(i) ==
  /\ At(i, "finish_deploy")
  /\ LET p == procs[i]
         panel == Val(p.panel)
         m == Cardinality(DOMAIN posted) + 1
     IN \E ok \in BOOLEAN, edited \in BOOLEAN :
          IF ~ok
            THEN Step(i, [p EXCEPT !.pc = "finish_reply"]) /\ UNCHANGED <<posted, inflight>>
          ELSE IF isEdit(Val(p.data)) /\ IsSet(panel.messageId)
            THEN IF /\ Val(panel.messageId) \in DOMAIN posted
                    /\ posted[Val(panel.messageId)] # None
                    /\ edited
                   THEN /\ posted' = [posted EXCEPT ![Val(panel.messageId)] = Some(Rendered(panel))]
                        /\ Step(i, [p EXCEPT !.pc = "finish_reply"])
                        /\ UNCHANGED inflight
                   ELSE Step(i, [p EXCEPT !.pc = "ask_get"]) /\ UNCHANGED <<posted, inflight>>
          ELSE LET sent == [panel EXCEPT !.messageId = Some(m)]
               IN /\ posted' = Put(posted, m, Some(Rendered(panel)))
                  /\ inflight' = Append(inflight, <<"panel", sent.id, sent>>)
                  /\ Step(i, [p EXCEPT !.pc = "finish_reply", !.panel = Some(sent)])
  /\ UNCHANGED <<governorVars, panels, ops, overlap, ticketVars, autosaves, session>>

\* askToSendNewMessage: the panel is parked on the Autosave row as tempPanel
AskToSendNewMessage(i) ==
  /\ procs[i].pc \in {"ask_get", "ask_save"}
  /\ LET p == procs[i] IN
       IF At(i, "ask_get")
         THEN /\ Step(i, [p EXCEPT !.pc = "ask_save", !.row = Get(autosaves, p.user)])
              /\ UNCHANGED autosaves
         ELSE /\ autosaves' = Put(autosaves, p.user,
                                  IF IsSet(p.row)
                                    THEN [Val(p.row) EXCEPT !.tempPanel = p.panel]
                                    ELSE [data |-> EmptyDraft, tempPanel |-> p.panel])
              /\ Ends(i, "asked")
  /\ UNCHANGED <<governorVars, panels, ops, overlap, ticketVars, inflight, posted, session>>

\* "Panel ... created/updated successfully!"
FinishReply(i) ==
  /\ At(i, "finish_reply")
  /\ session' = <<>>
  /\ Ends(i, "finished")
  /\ UNCHANGED <<governorVars, panels, ops, overlap, ticketVars, autosaves, inflight, posted>>

\* the panel messages that are there and open tickets of panel n
LiveMessages(n) == {m \in DOMAIN posted : posted[m] # None /\ Val(posted[m]).opens = n}

\* handleSendNewMessage: getAutosave(userId) and its tempPanel
SendNewMessage(u) ==
  /\ LET row == Get(autosaves, u)
         panel == IF IsSet(row) THEN Val(row).tempPanel ELSE None
     IN Start([NewProc("send", u, 0) EXCEPT !.pc = "send_post", !.panel = panel],
              IF IsSet(panel) THEN "" ELSE "no_panel_data")
  /\ UNCHANGED <<governorVars, panels, ticketVars, wizardVars>>

\* channel.send of a new panel message, its button always Primary
SendPost(i) ==
  /\ At(i, "send_post")
  /\ LET p == procs[i]
         panel == Val(p.panel)
         m == Cardinality(DOMAIN posted) + 1
     IN \E ok \in BOOLEAN :
          IF ok THEN /\ posted' = Put(posted, m, Some(Rendered([panel EXCEPT !.color = "Primary"])))
                     /\ Step(i, [p EXCEPT !.pc = "send_save",
                                          !.panel = Some([panel EXCEPT !.messageId = Some(m)])])
          ELSE Ends(i, "send_failed") /\ UNCHANGED posted
  /\ UNCHANGED <<governorVars, panels, ops, overlap, ticketVars, autosaves, inflight, session>>

\* await client.db.save(panel): the parked panel with the new message id
SendSave(i) ==
  /\ At(i, "send_save")
  /\ panels' = Put(panels, Val(procs[i].panel).id, Val(procs[i].panel))
  /\ Step(i, [procs[i] EXCEPT !.pc = "send_delete"])
  /\ UNCHANGED <<governorVars, ops, overlap, ticketVars, wizardVars>>

\* deleteAutosave(userId), then "updated successfully"
SendDelete(i) ==
  /\ At(i, "send_delete")
  /\ autosaves' = Drop(autosaves, procs[i].user)
  /\ Ends(i, "sent")
  /\ UNCHANGED <<governorVars, panels, ops, overlap, ticketVars, inflight, posted, session>>

\* handleCancelNewMessage: deleteAutosave(userId), then "Panel update cancelled"
CancelNewMessage(u) ==
  /\ Start(NewProc("cancel_new", u, 0), "update_cancelled")
  /\ autosaves' = Drop(autosaves, u)
  /\ UNCHANGED <<governorVars, panels, ticketVars, inflight, posted, session>>

\* a member deletes a panel message
DeleteMessage(m) ==
  /\ m \in DOMAIN posted /\ posted[m] # None
  /\ ops < MaxOps
  /\ ops' = ops + 1
  /\ posted' = [posted EXCEPT ![m] = None]
  /\ UNCHANGED <<governorVars, panels, procs, reports, overlap, ticketVars, autosaves, inflight, session>>

(***************************************************************************)
(* /panel save and /panel import (commands/ping.ts)                        *)
(***************************************************************************)
\* the template handleSave makes of a panel: no channel, category or role
TemplateOf(panel) ==
  [ name |-> IF IsSet(panel.name) THEN Val(panel.name) ELSE "Unnamed Panel",
    label |-> panel.label, emoji |-> panel.emoji, color |-> panel.color,
    description |-> panel.description, openMessage |-> panel.openMessage,
    questions |-> panel.questions, customQuestions |-> panel.customQuestions,
    claimable |-> panel.claimable, allowOwnerClose |-> panel.allowOwnerClose,
    userPermissions |-> panel.userPermissions, staffPermissions |-> panel.staffPermissions ]

\* the panel handleImport builds from a template
ImportedPanel(id, template) ==
  [ id |-> id, name |-> Some(template.name), channel |-> None,
    openCategory |-> None, closeCategory |-> None, staffRole |-> None,
    logsChannel |-> None, transcriptChannel |-> None,
    label |-> template.label, emoji |-> template.emoji, color |-> template.color,
    description |-> template.description, openMessage |-> template.openMessage,
    questions |-> template.questions, customQuestions |-> template.customQuestions,
    claimable |-> template.claimable, allowOwnerClose |-> template.allowOwnerClose,
    enabled |-> FALSE, messageId |-> None, ticketsCreated |-> 0,
    userPermissions |-> template.userPermissions,
    staffPermissions |-> template.staffPermissions ]

PanelNo == FirstId + 1

\* store rows of type 'template', and the ids a member may type
Templates ==
  "TPL-1" :> TemplateOf(CommittedPanel(PanelNo,
               [questions |-> <<"issue?">>, closeCategory |-> None, allowOwnerClose |-> FALSE]))
TemplateIds == {"TPL-1", "TPL-0"}

\* handleImport: db.getPanelTemplate(templateId)
ImportTemplate(u, id) ==
  /\ LET template == Get(Templates, id)
     IN Start([NewProc("import", u, id) EXCEPT !.pc = "import_genId", !.data = template],
              IF IsSet(template) THEN "" ELSE "template_not_found")
  /\ UNCHANGED <<governorVars, panels, ticketVars, wizardVars>>

\* const newPanelId = await client.db.generatePanelId()
ImportGenId(i) ==
  /\ At(i, "import_genId")
  /\ Step(i, [procs[i] EXCEPT !.pc = "import_save", !.tid = GenerateId(panels)])
  /\ UNCHANGED <<governorVars, panels, ops, overlap, ticketVars, wizardVars>>

\* await client.db.save(newPanel), then "Panel Template Imported"
ImportSave(i) ==
  /\ At(i, "import_save")
  /\ panels' = Put(panels, procs[i].tid, ImportedPanel(procs[i].tid, Val(procs[i].data)))
  /\ Ends(i, "imported")
  /\ UNCHANGED <<governorVars, ops, overlap, ticketVars, wizardVars>>

(***************************************************************************)
(* InteractionRouter.route and the acknowledgments of the handlers it      *)
(* dispatches to.  The source holds two revisions of the router; a routed  *)
(* interaction runs under one of them.                                     *)
(***************************************************************************)
RouterVersions == {1, 2}

\* modalActions: the actions the router leaves un-deferred because they open a modal
modalActions(v) ==
  {"set-name", "set-description", "set-openmessage", "add-question", "set-label"}
    \cup (IF v = 1 THEN {"set-emoji"} ELSE {})

ephemeralActions == {"open"}

\* the systems index.ts registers a handler for
Handlers == {"wizard", "ticket", "panel"}

Ix(type, system, action) == [type |-> type, system |-> system, action |-> action]

\* interactions by type and custom id "system:action:..."
Interactions ==
  { Ix("button", "wizard", "set-name"), Ix("button", "wizard", "set-emoji"),
    Ix("button", "wizard", "finish"), Ix("modal", "wizard", "modal-name"),
    Ix("button", "ticket", "open"), Ix("modal", "ticket", "answer"),
    Ix("button", "ticket", "close"),
    Ix("select", "panel", "delete-template-select"),
    Ix("button", "nosuch", "x"), Ix("command", "", "") }

\* discord.js: these answer an interaction for the first time and throw
\* InteractionAlreadyReplied on one already deferred or replied
FirstAcks == {"showModal", "reply", "deferUpdate"}

\* discord.js: these throw InteractionNotReplied on an interaction not yet answered
Edits == {"editReply", "followUp"}

Legal(op, acked) == IF op \in FirstAcks THEN ~acked ELSE acked

\* SetupWizardHandler: the acknowledgment calls of an action, in order, on each
\* of its paths
WizardPlans(action) ==
  CASE action = "set-name" -> {<<"showModal">>}
    [] action = "set-emoji" -> {<<"editReply">>}
    [] action = "modal-name" -> {<<"deferUpdate", "editReply">>}
    [] OTHER -> {<<"editReply">>}

\* TicketHandler: open replies or opens the question modal, answer replies unless
\* the panel is gone, and the rest look at the interaction's state first
TicketPlans(action, acked) ==
  CASE action = "open" -> {<<"reply">>, <<"showModal">>, <<"reply", "followUp">>}
    [] action = "answer" -> {<<>>, <<"reply", "followUp">>}
    [] OTHER -> IF acked THEN {<<"followUp">>} ELSE {<<"reply">>, <<"deferUpdate", "followUp">>}

\* PanelHandler.handleDeleteTemplateSelect: a reply to anyone but the initiator,
\* else a defer if none was made and an edit
PanelPlans(acked) ==
  {<<"reply">>, IF acked THEN <<"editReply">> ELSE <<"deferUpdate", "editReply">>}

HandlerPlans(ix, acked) ==
  CASE ix.system = "wizard" -> WizardPlans(ix.action)
    [] ix.system = "ticket" -> TicketPlans(ix.action, acked)
    [] ix.system = "panel" -> PanelPlans(acked)

RouteProc(v, ix) ==
  [ NewProc("route", "", 0) EXCEPT
      !.pc = "route_defer",
      !.data = [ version |-> v, ix |-> ix, acked |-> FALSE, plan |-> <<>>, illegal |-> FALSE,
                 threw |-> FALSE, replyFailed |-> FALSE, result |-> "" ] ]

routerFrame == <<panels, ticketVars, wizardVars, governorVars>>

\* route, up to its first await: anything but a button, a select menu or a modal
\* submission returns at once
Route(v, ix) ==
  /\ Start(RouteProc(v, ix), IF ix.type = "command" THEN "not_component" ELSE "")
  /\ UNCHANGED routerFrame

\* the router's deferUpdate, whose failure is logged and dropped
RouteDefer(i) ==
  /\ At(i, "route_defer")
  /\ LET r == procs[i].data
         defers == /\ r.ix.action \notin modalActions(r.version)
                   /\ r.ix.action \notin ephemeralActions
                   /\ r.ix.type \in {"button", "select"}
                   /\ ~r.acked
     IN \E ok \in BOOLEAN :
          /\ ok \/ defers
          /\ Step(i, [procs[i] EXCEPT !.pc = "route_dispatch", !.data.acked = defers /\ ok])
  /\ UNCHANGED <<ops, overlap, routerFrame>>

\* handlers.get(system): the handler starts on one of its paths, or there is none
RouteDispatch(i) ==
  /\ At(i, "route_dispatch")
  /\ LET r == procs[i].data
     IN IF r.ix.system \in Handlers
        THEN \E plan \in HandlerPlans(r.ix, r.acked) :
               Step(i, [procs[i] EXCEPT !.pc = "handler", !.data.plan = plan])
        ELSE Step(i, [procs[i] EXCEPT !.pc = "route_done", !.data.result = "returned"])
  /\ UNCHANGED <<ops, overlap, routerFrame>>

\* the handler's next acknowledgment call: it throws when the interaction is in
\* the wrong state for it or when the request fails
HandlerAck(i) ==
  /\ At(i, "handler")
  /\ procs[i].data.plan # <<>>
  /\ LET r == procs[i].data
         op == Head(r.plan)
     IN \E ok \in BOOLEAN :
          IF Legal(op, r.acked) /\ ok
          THEN Step(i, [procs[i] EXCEPT !.data.acked = TRUE, !.data.plan = Tail(r.plan)])
          ELSE Step(i, [procs[i] EXCEPT !.pc = "handler_catch",
                                        !.data.illegal = ~Legal(op, r.acked)])
  /\ UNCHANGED <<ops, overlap, routerFrame>>

\* execute returns; the InteractionHandler interface also lets it reject
HandlerReturn(i) ==
  /\ At(i, "handler")
  /\ procs[i].data.plan = <<>>
  /\ \E rejects \in BOOLEAN :
       Step(i, IF rejects THEN [procs[i] EXCEPT !.pc = "route_catch", !.data.threw = TRUE]
               ELSE [procs[i] EXCEPT !.pc = "route_done", !.data.result = "returned"])
  /\ UNCHANGED <<ops, overlap, routerFrame>>

\* the catch of a handler's execute: ErrorHandler.sendError edits or replies as
\* the interaction's state asks and swallows a failure
HandlerCatch(i) ==
  /\ At(i, "handler_catch")
  /\ \E ok \in BOOLEAN :
       Step(i, [procs[i] EXCEPT !.pc = "route_done", !.data.result = "returned",
                                !.data.acked = procs[i].data.acked \/ ok])
  /\ UNCHANGED <<ops, overlap, routerFrame>>

\* a variant in which a failed error reply leaves route as an exception
ErrorReplyEscapes(ok) == IF ok THEN "returned" ELSE "propagated"

\* how route ends after its error reply: the reply's .catch drops a failure
ErrorReplyOutcome(ok) == "returned"

\* the catch of route: editReply on an answered interaction, reply otherwise
RouteCatch(i) ==
  /\ At(i, "route_catch")
  /\ \E ok \in BOOLEAN :
       Step(i, [procs[i] EXCEPT !.pc = "route_done", !.data.result = ErrorReplyOutcome(ok),
                                !.data.replyFailed = ~ok,
                                !.data.acked = procs[i].data.acked \/ ok])
  /\ UNCHANGED <<ops, overlap, routerFrame>>

\* route's promise settles
RouteReturn(i) ==
  /\ At(i, "route_done")
  /\ Ends(i, "routed")
  /\ UNCHANGED <<ops, overlap, routerFrame>>


(***************************************************************************)
(* The store holds one deployed panel, configured in one of the ways of    *)
(* configs; drafts says which Autosave rows the behaviour may begin with.  *)
(***************************************************************************)
Begin(configs, drafts) ==
  /\ \E cfg \in configs :
       /\ panels = (PanelNo :> CommittedPanel(PanelNo, cfg))
       /\ posted = (1 :> Some(Rendered(CommittedPanel(PanelNo, cfg))))
  /\ tickets = <<>>
  /\ channels = <<>>
  /\ procs = [i \in Slots |-> Idle]
  /\ ops = 0
  /\ reports = <<>>
  /\ modals = {}
  /\ preClose = <<>>
  /\ preClaim = <<>>
  /\ overlap = FALSE
  /\ autosaves \in drafts
  /\ inflight = <<>>
  /\ session = <<>>
  /\ GovernorIdle

(***************************************************************************)
(* The ticket lifecycle: any interleaving of the ticket handlers.          *)
(***************************************************************************)
Init == Begin(PanelConfigs, {<<>>})

Next ==
  \/ \E u \in Users, n \in DOMAIN panels : OpenTicket(u, n) \/ QuestionModal(u, n)
  \/ \E u \in Users, t \in DOMAIN tickets :
       \/ CloseTicket(u, t)
       \/ ReopenTicket(u, t)
       \/ ClaimTicket(u, t)
       \/ UnclaimTicket(u, t)
  \/ \E i \in Slots :
       \/ OpenCheck(i)
       \/ CreateGenId(i) \/ CreateChannel(i) \/ CreateSaveTicket(i)
       \/ CreateSavePanel(i) \/ CreateWelcome(i) \/ CreateSaveWelcome(i)
       \/ CloseGetPanel(i) \/ CloseFetch(i) \/ CloseRename(i) \/ CloseMove(i)
       \/ ClosePerm(i) \/ CloseSave(i) \/ CloseUpdate(i)
       \/ ReopenGetPanel(i) \/ ReopenFetch(i) \/ ReopenRename(i) \/ ReopenMove(i)
       \/ ReopenPerm(i) \/ ReopenSave(i) \/ ReopenUpdate(i)
       \/ ClaimGetPanel(i) \/ ClaimSave(i) \/ ClaimRename(i)
       \/ UnclaimSave(i) \/ UnclaimRename(i)

Spec == Init /\ [][Next]_vars

(***************************************************************************)
(* The setup wizard and the template import: any interleaving of their     *)
(* handlers and of the writes they leave in flight.  A behaviour begins    *)
(* with no draft, or with a draft that lacks only the panel name.          *)
(***************************************************************************)
NamelessDraft ==
  [ DefaultDraft EXCEPT !.channel = Some("chan-panel"), !.openCategory = Some("cat-open"),
                        !.staffRole = Some(StaffRole) ]

WizardInit ==
  Begin({cfg \in PanelConfigs : cfg.questions = <<>>},
        {<<>>} \cup {[u \in WizardUsers |-> [data |-> NamelessDraft, tempPanel |-> None]]})

WizardNext ==
  \/ \E u \in WizardUsers :
       \/ \E field \in EditFields : WizardEdit(u, field)
       \/ \E n \in DOMAIN panels : EditSelect(u, n)
       \/ FinishSetup(u)
       \/ CancelSetup(u)
       \/ \E id \in TemplateIds : ImportTemplate(u, id)
  \/ \E i \in Slots :
       \/ EditSave(i) \/ EditRender(i) \/ CancelReply(i)
       \/ FinishCheck(i) \/ FinishReread(i) \/ FinishSave(i) \/ FinishDelete(i)
       \/ FinishDeploy(i) \/ AskToSendNewMessage(i) \/ FinishReply(i)
       \/ ImportGenId(i) \/ ImportSave(i)
  \/ \E k \in DOMAIN inflight : Land(k)
  \/ \E m \in DOMAIN posted : DeleteMessage(m)

WizardSpec == WizardInit /\ [][WizardNext]_vars


(***************************************************************************)
(* The router: any interleaving of routed interactions.                    *)
(***************************************************************************)
RouterInit == Begin({cfg \in PanelConfigs : cfg.questions = <<>>}, {<<>>})

RouterNext ==
  \/ \E v \in RouterVersions, ix \in Interactions : Route(v, ix)
  \/ \E i \in Slots :
       \/ RouteDefer(i) \/ RouteDispatch(i)
       \/ HandlerAck(i) \/ HandlerReturn(i) \/ HandlerCatch(i)
       \/ RouteCatch(i) \/ RouteReturn(i)

RouterSpec == RouterInit /\ [][RouterNext]_vars


(***************************************************************************)
(* Claiming: any interleaving of Claim and Unclaim requests by the owner,  *)
(* a staff member and a Manage Channels holder on one open ticket, as the  *)
(* owner's Open left it.                                                   *)
(***************************************************************************)
OpenedTicket ==
  [ NewTicket(FirstId + 1, "u1", PanelNo, 1) EXCEPT !.welcomeMessageId = Some(1) ]

ClaimInit ==
  /\ \E cfg \in {c \in PanelConfigs : c.questions = <<>>} :
       /\ panels = (PanelNo :> IncrementedPanel(CommittedPanel(PanelNo, cfg)))
       /\ posted = (1 :> Some(Rendered(CommittedPanel(PanelNo, cfg))))
  /\ tickets = (OpenedTicket.id :> OpenedTicket)
  /\ channels = (1 :> [name |-> TicketChannelName("u1"), parent |-> "cat-open",
                       ownerAccess |-> TRUE, welcome |-> Some(1), buttons |-> "open",
                       overwrite |-> DefaultOverwrite])
  /\ procs = [i \in Slots |-> Idle]
  /\ ops = 0
  /\ reports = <<>>
  /\ modals = {}
  /\ preClose = <<>>
  /\ preClaim = <<>>
  /\ overlap = FALSE
  /\ autosaves = <<>>
  /\ inflight = <<>>
  /\ session = <<>>
  /\ GovernorIdle

ClaimNext ==
  \/ \E u \in Members, t \in DOMAIN tickets : ClaimTicket(u, t) \/ UnclaimTicket(u, t)
  \/ \E i \in Slots :
       \/ ClaimGetPanel(i) \/ ClaimSave(i) \/ ClaimRename(i)
       \/ UnclaimSave(i) \/ UnclaimRename(i)

ClaimSpec == ClaimInit /\ [][ClaimNext]_vars


(***************************************************************************)
(* The deployed panel under ticket creations and wizard commits: the       *)
(* owner's Open, the wizard's Finish, the answers to its question about a  *)
(* replacement message, and the writes left in flight.  A behaviour begins *)
(* with no draft, with the draft Edit made of the panel, or with a         *)
(* complete draft of a new panel.                                          *)
(***************************************************************************)
PanelDrafts ==
  { EditDraft(CommittedPanel(PanelNo, cfg)) : cfg \in {c \in PanelConfigs : c.questions = <<>>} }
    \cup { [NamelessDraft EXCEPT !.name = Some("Billing")] }

PanelInit ==
  Begin({cfg \in PanelConfigs : cfg.questions = <<>>},
        {<<>>} \cup {[u \in WizardUsers |-> [data |-> d, tempPanel |-> None]] : d \in PanelDrafts})

PanelNext ==
  \/ \E n \in DOMAIN panels : OpenTicket("u1", n)
  \/ \E u \in WizardUsers : FinishSetup(u) \/ SendNewMessage(u) \/ CancelNewMessage(u)
  \/ \E i \in Slots :
       \/ OpenCheck(i)
       \/ CreateGenId(i) \/ CreateChannel(i) \/ CreateSaveTicket(i)
       \/ CreateSavePanel(i) \/ CreateWelcome(i) \/ CreateSaveWelcome(i)
       \/ FinishCheck(i) \/ FinishReread(i) \/ FinishSave(i) \/ FinishDelete(i)
       \/ FinishDeploy(i) \/ AskToSendNewMessage(i) \/ FinishReply(i)
       \/ SendPost(i) \/ SendSave(i) \/ SendDelete(i)
  \/ \E k \in DOMAIN inflight : Land(k)

PanelSpec == PanelInit /\ [][PanelNext]_vars


(***************************************************************************)
(* The intake questions: the wizard's add-question modal builds the lists, *)
(* the Open button shows them.  A behaviour begins with a deployed panel   *)
(* to which questions of either type were added in some order.             *)
(***************************************************************************)
MaxQuestions == 6  \* questions configured on a panel
ModalCap == 5      \* panel.questions.slice(0, 5)

QuestionTexts == <<"q1", "q2", "q3", "q4", "q5", "q6", "q7">>

\* handleQuestionModal of the wizard, applied once per type: customQuestions gets
\* {text, type}, the legacy questions list gets the text, both at the end
AddedQuestions(types) ==
  [ customQuestions |-> [k \in 1..Len(types) |-> [text |-> QuestionTexts[k], type |-> types[k]]],
    questions |-> [k \in 1..Len(types) |-> QuestionTexts[k]] ]

\* const questionsToShow = panel.questions.slice(0, 5)
questionsToShow(panel) ==
  SubSeq(panel.questions, 1, IF Len(panel.questions) < ModalCap THEN Len(panel.questions) ELSE ModalCap)

RECURSIVE OfType(_, _)
\* the texts of the questions of one type, in their configured order
OfType(custom, type) ==
  IF custom = <<>> THEN <<>>
  ELSE (IF Head(custom).type = type THEN <<Head(custom).text>> ELSE <<>>)
         \o OfType(Tail(custom), type)

\* primary-type questions ahead of optional-type ones
PrimaryFirst(custom) == OfType(custom, "primary") \o OfType(custom, "optional")

RECURSIVE TypeLists(_)
TypeLists(n) ==
  IF n = 0 THEN {<<>>}
  ELSE TypeLists(n - 1) \cup
       {Append(l, t) : l \in {x \in TypeLists(n - 1) : Len(x) = n - 1}, t \in {"primary", "optional"}}

QuestionInit ==
  /\ \E types \in TypeLists(MaxQuestions) \ {<<>>} :
       LET cfg == CHOOSE c \in PanelConfigs : c.questions = <<>>
           added == AddedQuestions(types)
           panel == [CommittedPanel(PanelNo, cfg) EXCEPT !.questions = added.questions,
                                                         !.customQuestions = added.customQuestions]
       IN /\ panels = (PanelNo :> panel)
          /\ posted = (1 :> Some(Rendered(panel)))
  /\ tickets = <<>>
  /\ channels = <<>>
  /\ procs = [i \in Slots |-> Idle]
  /\ ops = 0
  /\ reports = <<>>
  /\ modals = {}
  /\ preClose = <<>>
  /\ preClaim = <<>>
  /\ overlap = FALSE
  /\ autosaves = <<>>
  /\ inflight = <<>>
  /\ session = <<>>
  /\ GovernorIdle

QuestionNext ==
  \/ \E n \in DOMAIN panels : OpenTicket("u1", n)
  \/ \E i \in Slots : OpenCheck(i)

QuestionSpec == QuestionInit /\ [][QuestionNext]_vars


(***************************************************************************)
(* The lifecycle of one open ticket when a store write can fail: any       *)
(* interleaving of the staff member's Close, Reopen, Claim and Unclaim.    *)
(***************************************************************************)
FaultNext ==
  \/ \E t \in DOMAIN tickets :
       \/ CloseTicket("s1", t) \/ ReopenTicket("s1", t)
       \/ ClaimTicket("s1", t) \/ UnclaimTicket("s1", t)
  \/ \E i \in Slots :
       \/ CloseGetPanel(i) \/ CloseFetch(i) \/ CloseRename(i) \/ CloseMove(i)
       \/ ClosePerm(i) \/ CloseSave(i) \/ CloseUpdate(i)
       \/ ReopenGetPanel(i) \/ ReopenFetch(i) \/ ReopenRename(i) \/ ReopenMove(i)
       \/ ReopenPerm(i) \/ ReopenSave(i) \/ ReopenUpdate(i)
       \/ ClaimGetPanel(i) \/ ClaimSave(i) \/ ClaimRename(i)
       \/ UnclaimSave(i) \/ UnclaimRename(i)
       \/ SaveFails(i)

FaultSpec == ClaimInit /\ [][FaultNext]_vars


(***************************************************************************)
(* safeChannelOperation(channelId, operation, operationName, minDelay):    *)
(* a handler calls the governor for a channel; the governor sleeps the     *)
(* rest of the delay if the channel has a recent entry in the map, calls   *)
(* operation(), races it against the timer, and returns a result object.   *)
(***************************************************************************)
GovernedChannels == {1}

\* the outcomes of the race: operation() resolved, operation() rejected with an
\* Error, or the timer rejected first
Outcomes == {"resolved", "rejected", "timed_out"}

\* a governor that lets the error escape its catch block
GovernorRethrows(outcome) ==
  [ success |-> outcome = "resolved",
    error |-> IF outcome = "resolved" THEN None ELSE Some(outcome),
    thrown |-> outcome # "resolved" ]

\* what safeChannelOperation hands to its caller: { success: true, result } after
\* the race, { success: false, result: null, error } from the catch block
GovernorResult(outcome) ==
  [ success |-> outcome = "resolved",
    error |-> IF outcome = "resolved" THEN None ELSE Some(outcome),
    thrown |-> FALSE ]

\* a timer that never fires
TimedOutNever(call) == FALSE

\* the 10 second timer of the race has fired
TimedOut(call) == now >= call.deadline

GovCall(i) == Val(procs[i].data)

Governed(i) == procs[i].kind = "governed"

\* operation() is called on channel c
Issue(c) ==
  issued' = Put(issued, c,
                [ last |-> now,
                  early |-> c \in DOMAIN issued
                            /\ (issued[c].early \/ now - issued[c].last < MinDelay) ])

\* entry up to the first await: the sleep when the map holds a recent time for the
\* channel, else the race with operation() already called
Govern(c) ==
  LET lastOp == IF c \in DOMAIN lastChannelOperation THEN lastChannelOperation[c] ELSE 0
      timeSinceLastOp == now - lastOp
      waits == lastOp # 0 /\ timeSinceLastOp < MinDelay
      waitTime == MinDelay - timeSinceLastOp
      call == [ entered |-> now,
                wake |-> IF waits THEN now + waitTime ELSE now,
                deadline |-> IF waits THEN 0 ELSE now + Timeout ]
  IN /\ Start([NewProc("governed", "s1", c) EXCEPT
                 !.pc = IF waits THEN "gov_wait" ELSE "gov_race", !.data = Some(call)], "")
     /\ IF waits THEN UNCHANGED issued ELSE Issue(c)
     /\ UNCHANGED <<now, lastChannelOperation, panels, ticketVars, wizardVars>>

\* the sleep ends: the timer is set and operation() is called
GovWake(i) ==
  /\ Governed(i) /\ At(i, "gov_wait")
  /\ now >= GovCall(i).wake
  /\ Step(i, [procs[i] EXCEPT !.pc = "gov_race",
                              !.data = Some([GovCall(i) EXCEPT !.deadline = now + Timeout])])
  /\ Issue(procs[i].arg)
  /\ UNCHANGED <<now, lastChannelOperation, panels, ticketVars, wizardVars, ops, overlap>>

\* the governor returns: what the caller holds, and how long the call took
GovReturn(i, outcome) ==
  Step(i, [procs[i] EXCEPT !.pc = "gov_returned",
                           !.data = Some([ result |-> GovernorResult(outcome),
                                           took |-> now - GovCall(i).entered ])])

\* operation() resolves first: the map takes the time of completion
GovResolve(i) ==
  /\ Governed(i) /\ At(i, "gov_race")
  /\ GovReturn(i, "resolved")
  /\ lastChannelOperation' = Put(lastChannelOperation, procs[i].arg, now)
  /\ UNCHANGED <<now, issued, panels, ticketVars, wizardVars, ops, overlap>>

\* operation() rejects first
GovReject(i) ==
  /\ Governed(i) /\ At(i, "gov_race")
  /\ GovReturn(i, "rejected")
  /\ UNCHANGED <<governorVars, panels, ticketVars, wizardVars, ops, overlap>>

\* the timer rejects first
GovTimeout(i) ==
  /\ Governed(i) /\ At(i, "gov_race")
  /\ TimedOut(GovCall(i))
  /\ GovReturn(i, "timed_out")
  /\ UNCHANGED <<governorVars, panels, ticketVars, wizardVars, ops, overlap>>

\* the caller reads the result object and goes on with its remaining steps
GovContinue(i) ==
  /\ Governed(i) /\ At(i, "gov_returned")
  /\ ~GovCall(i).result.thrown
  /\ Ends(i, "continued")
  /\ UNCHANGED <<governorVars, panels, ticketVars, wizardVars, ops, overlap>>

\* a timer of some call is due
TimerDue ==
  \E i \in Slots :
    /\ Governed(i)
    /\ \/ At(i, "gov_wait") /\ now >= GovCall(i).wake
       \/ At(i, "gov_race") /\ TimedOut(GovCall(i))
       \/ At(i, "gov_returned")

\* a second passes; due timers fire, and returned results are read, before the
\* clock moves on
Tick ==
  /\ now < MaxTime
  /\ ~TimerDue
  /\ now' = now + 1
  /\ UNCHANGED <<lastChannelOperation, issued, procs, reports, panels, ticketVars,
                 wizardVars, ops, overlap>>

GovernorNext ==
  \/ \E c \in GovernedChannels : Govern(c)
  \/ \E i \in Slots :
       \/ GovWake(i) \/ GovResolve(i) \/ GovReject(i) \/ GovTimeout(i) \/ GovContinue(i)
  \/ Tick

GovernorSpec == ClaimInit /\ [][GovernorNext]_vars


(***************************************************************************)
(* Records that are gone: the panel deleted from the panel list, the       *)
(* member's tickets cleared by the clear command, while the buttons and    *)
(* the intake modal that name them are still on screen.                    *)
(***************************************************************************)
\* TicketHandler.handleDeleteSelect: the panel message is deleted when it can be,
\* then the panel row
handleDeleteSelect(n) ==
  /\ ops < MaxOps
  /\ ops' = ops + 1
  /\ n \in DOMAIN panels
  /\ panels' = Drop(panels, n)
  /\ \E deleted \in BOOLEAN :
       posted' = IF deleted /\ IsSet(panels[n].messageId) /\ Val(panels[n].messageId) \in DOMAIN posted
                 THEN [posted EXCEPT ![Val(panels[n].messageId)] = None]
                 ELSE posted
  /\ UNCHANGED <<governorVars, ticketVars, procs, reports, overlap, autosaves, inflight, session>>

\* the clear command: for each ticket of the member, channel.delete() when it can
\* be done, then db.delete(ticket.id); run here while no ticket handler is in flight
handleClear(u) ==
  LET ticketsToClear == {t \in DOMAIN tickets : tickets[t].owner = u}
  IN /\ ops < MaxOps
     /\ ops' = ops + 1
     /\ Active = {}
     /\ ticketsToClear # {}
     /\ tickets' = [t \in DOMAIN tickets \ ticketsToClear |-> tickets[t]]
     /\ \E gone \in SUBSET {tickets[t].channelId : t \in ticketsToClear} :
          channels' = [c \in DOMAIN channels \ gone |-> channels[c]]
     /\ UNCHANGED <<governorVars, wizardVars, panels, procs, reports, overlap, modals,
                    preClose, preClaim>>

\* the Transcript button: db.get(ticketId)
GenerateTranscript(u, t) ==
  /\ LET ticket == Get(tickets, t)
     IN Start([NewProc("transcript", u, t) EXCEPT !.pc = "transcript_getPanel", !.ticket = ticket],
              FirstCheck(ticket, FALSE, ""))
  /\ UNCHANGED <<governorVars, wizardVars, panels, tickets, channels, modals, preClose, preClaim>>

\* db.get(ticket.panelId), then the transcript is generated and sent
TranscriptGetPanel(i) ==
  /\ At(i, "transcript_getPanel")
  /\ LET panel == Get(panels, Val(procs[i].ticket).panelId)
     IN IF ~IsSet(panel) THEN Ends(i, "panel_not_found")
        ELSE Ends(i, IF IsSet(Val(panel).logsChannel) THEN "transcript_logged" ELSE "transcript_sent")
  /\ UNCHANGED <<governorVars, wizardVars, panels, tickets, channels, ops, modals, preClose, preClaim, overlap>>

\* the ticket the buttons of the one ticket channel name
TicketRefs == {OpenedTicket.id}

NotFoundInit == ClaimInit \/ Begin({cfg \in PanelConfigs : cfg.questions # <<>>}, {<<>>})

NotFoundNext ==
  \/ handleDeleteSelect(PanelNo)
  \/ handleClear("u1")
  \/ OpenTicket("u1", PanelNo) \/ QuestionModal("u1", PanelNo)
  \/ \E t \in TicketRefs :
       \/ CloseTicket("s1", t) \/ ReopenTicket("s1", t)
       \/ ClaimTicket("s1", t) \/ UnclaimTicket("s1", t)
       \/ GenerateTranscript("s1", t)
  \/ \E i \in Slots :
       \/ OpenCheck(i)
       \/ CreateGenId(i) \/ CreateChannel(i) \/ CreateSaveTicket(i)
       \/ CreateSavePanel(i) \/ CreateWelcome(i) \/ CreateSaveWelcome(i)
       \/ CloseGetPanel(i) \/ CloseFetch(i) \/ CloseRename(i) \/ CloseMove(i)
       \/ ClosePerm(i) \/ CloseSave(i) \/ CloseUpdate(i)
       \/ ReopenGetPanel(i) \/ ReopenFetch(i) \/ ReopenRename(i) \/ ReopenMove(i)
       \/ ReopenPerm(i) \/ ReopenSave(i) \/ ReopenUpdate(i)
       \/ ClaimGetPanel(i) \/ ClaimSave(i) \/ ClaimRename(i)
       \/ UnclaimSave(i) \/ UnclaimRename(i)
       \/ TranscriptGetPanel(i)

NotFoundSpec == NotFoundInit /\ [][NotFoundNext]_vars


(***************************************************************************)
(* Transcripts of one ticket whose panel has, or has not, a logs channel:  *)
(* the Transcript button, and the generation that Close schedules.         *)
(***************************************************************************)
\* the setImmediate callback of closeTicket: autoGenerateTranscript with the ticket
\* and the panel Close read; no step of TranscriptNext writes the panel, so that
\* panel is the stored one
autoGenerateTranscript(t) ==
  /\ Count("closed", t) > Count("auto_sent", t) + Count("auto_logged", t)
  /\ LET panel == panels[tickets[t].panelId]
     IN Report(IF IsSet(panel.logsChannel) THEN "auto_logged" ELSE "auto_sent", t)
  /\ UNCHANGED <<governorVars, wizardVars, ticketVars, panels, procs, ops, overlap>>

TranscriptInit ==
  /\ \E cfg \in {c \in PanelConfigs : c.questions = <<>>}, logs \in {None, Some("chan-logs")} :
       LET panel == [IncrementedPanel(CommittedPanel(PanelNo, cfg)) EXCEPT !.logsChannel = logs]
       IN /\ panels = (PanelNo :> panel)
          /\ posted = (1 :> Some(Rendered(panel)))
  /\ tickets = (OpenedTicket.id :> OpenedTicket)
  /\ channels = (1 :> [name |-> TicketChannelName("u1"), parent |-> "cat-open",
                       ownerAccess |-> TRUE, welcome |-> Some(1), buttons |-> "open",
                       overwrite |-> DefaultOverwrite])
  /\ procs = [i \in Slots |-> Idle]
  /\ ops = 0
  /\ reports = <<>>
  /\ modals = {}
  /\ preClose = <<>>
  /\ preClaim = <<>>
  /\ overlap = FALSE
  /\ autosaves = <<>>
  /\ inflight = <<>>
  /\ session = <<>>
  /\ GovernorIdle

TranscriptNext ==
  \/ \E t \in DOMAIN tickets :
       \/ CloseTicket("s1", t) \/ ReopenTicket("s1", t)
       \/ \E u \in Users : GenerateTranscript(u, t)
       \/ autoGenerateTranscript(t)
  \/ \E i \in Slots :
       \/ CloseGetPanel(i) \/ CloseFetch(i) \/ CloseRename(i) \/ CloseMove(i)
       \/ ClosePerm(i) \/ CloseSave(i) \/ CloseUpdate(i)
       \/ ReopenGetPanel(i) \/ ReopenFetch(i) \/ ReopenRename(i) \/ ReopenMove(i)
       \/ ReopenPerm(i) \/ ReopenSave(i) \/ ReopenUpdate(i)
       \/ TranscriptGetPanel(i)

TranscriptSpec == TranscriptInit /\ [][TranscriptNext]_vars


(***************************************************************************)
(* The close and claim commands beside the buttons, on one open ticket of  *)
(* either member under either panel configuration.                         *)
(***************************************************************************)
\* the pre-check of the slash command's handleClose; its isStaff is Manage Channels
\* alone, and a missing panel forbids nothing (panel?.allowOwnerClose)
SlashCloseDenied(u, ticket, panel) ==
  /\ ticket.owner = u
  /\ IsSet(panel) /\ Val(panel).allowOwnerClose = FALSE
  /\ ~HasManageChannels(u)

\* the members of the pseudo-interaction the prefix command hands to closeTicket,
\* with replied and deferred both false
PseudoInteraction == {"user", "member", "guild", "channel", "followUp", "memberPermissions"}

\* the Close button goes on to close the ticket
ButtonCloses(u, ticket, panel) == ticket.state = "open" /\ ~CloseDenied(u, ticket, panel)

\* the slash command goes on to close: its own checks, then closeTicket's
SlashCloses(u, ticket, panel) ==
  ticket.state = "open" /\ ~SlashCloseDenied(u, ticket, Some(panel)) /\ ButtonCloses(u, ticket, panel)

\* the prefix command goes on to close: closeTicket calls interaction.reply when it
\* turns the request away and interaction.deferUpdate() when it does not
PrefixCloses(u, ticket, panel) ==
  ButtonCloses(u, ticket, panel) /\ "deferUpdate" \in PseudoInteraction

\* the Claim button goes on to claim
ButtonClaims(u, ticket, panel) == ~IsSet(ticket.claimedBy) /\ isStaff(u, panel)

\* the slash command's handleClaim goes on to claim: isStaff, then claimedBy
SlashClaims(u, ticket, panel) == isStaff(u, panel) /\ ~IsSet(ticket.claimedBy)

\* /ticket close: the ticket of the channel, the state check, the panel, the
\* pre-check, then closeTicket
handleClose(u, t) ==
  /\ LET ticket == Get(tickets, t)
         panel == IF IsSet(ticket) THEN Get(panels, Val(ticket).panelId) ELSE None
     IN Start([NewProc("close", u, t) EXCEPT !.pc = "close_getPanel", !.ticket = ticket],
              FirstCheck(ticket, Val(ticket).state = "closed" \/ SlashCloseDenied(u, Val(ticket), panel),
                         "rejected_by_command"))
  /\ UNCHANGED <<governorVars, wizardVars, panels, tickets, channels, modals, preClose, preClaim>>

\* the prefix command "ticket close": the ticket of the channel, the state check,
\* then closeTicket with the pseudo-interaction, which throws at its first call of
\* a member the object does not have
handleTicketClose(u, t) ==
  /\ LET ticket == Get(tickets, t)
         panel == Get(panels, Val(ticket).panelId)
     IN Start([NewProc("close", u, t) EXCEPT !.pc = "close_fetch", !.ticket = ticket, !.panel = panel],
              IF ~IsSet(ticket) THEN "ticket_not_found"
              ELSE IF Val(ticket).state = "closed" THEN "already_closed"
              ELSE IF ~IsSet(panel) THEN "panel_not_found"
              ELSE IF PrefixCloses(u, Val(ticket), Val(panel)) THEN "" ELSE "threw")
  /\ UNCHANGED <<governorVars, wizardVars, panels, tickets, channels, modals, preClose, preClaim>>

\* /ticket claim: the ticket of the channel, the panel, the staff check, the
\* claimedBy check; then the save, not awaited, and the rename
handleClaim(u, t) ==
  /\ LET ticket == Get(tickets, t)
         panel == IF IsSet(ticket) THEN Get(panels, Val(ticket).panelId) ELSE None
     IN Start([NewProc("claim", u, t) EXCEPT !.pc = "claim_save", !.ticket = ticket, !.panel = panel],
              IF ~IsSet(ticket) THEN "ticket_not_found"
              ELSE IF IsSet(panel) /\ ~SlashClaims(u, Val(ticket), Val(panel)) THEN "rejected_by_command"
              ELSE IF ~IsSet(panel) /\ (~HasManageChannels(u) \/ IsSet(Val(ticket).claimedBy))
                THEN "rejected_by_command"
              ELSE "")
  /\ UNCHANGED <<governorVars, wizardVars, panels, tickets, channels, modals, preClose, preClaim>>

CommandInit ==
  /\ \E cfg \in PanelConfigs :
       /\ panels = (PanelNo :> IncrementedPanel(CommittedPanel(PanelNo, cfg)))
       /\ posted = (1 :> Some(Rendered(CommittedPanel(PanelNo, cfg))))
  /\ \E owner \in Users :
       /\ tickets = (OpenedTicket.id :> [OpenedTicket EXCEPT !.owner = owner])
       /\ channels = (1 :> [name |-> TicketChannelName(owner), parent |-> "cat-open",
                            ownerAccess |-> TRUE, welcome |-> Some(1), buttons |-> "open",
                       overwrite |-> DefaultOverwrite])
  /\ procs = [i \in Slots |-> Idle]
  /\ ops = 0
  /\ reports = <<>>
  /\ modals = {}
  /\ preClose = <<>>
  /\ preClaim = <<>>
  /\ overlap = FALSE
  /\ autosaves = <<>>
  /\ inflight = <<>>
  /\ session = <<>>
  /\ GovernorIdle

CommandNext ==
  \/ \E u \in Users, t \in DOMAIN tickets :
       \/ CloseTicket(u, t) \/ handleClose(u, t) \/ handleTicketClose(u, t)
       \/ ClaimTicket(u, t) \/ handleClaim(u, t)
  \/ \E i \in Slots :
       \/ CloseGetPanel(i) \/ CloseFetch(i) \/ CloseRename(i) \/ CloseMove(i)
       \/ ClosePerm(i) \/ CloseSave(i) \/ CloseUpdate(i)
       \/ ClaimGetPanel(i) \/ ClaimSave(i) \/ ClaimRename(i)

CommandSpec == CommandInit /\ [][CommandNext]_vars


(***************************************************************************)
(* Close and Reopen of one ticket whose channel begins under any of the    *)
(* names an open ticket can have: ticket-<owner> or claimed-<claimer>,     *)
(* the member's name itself possibly holding one of the prefixes.          *)
(***************************************************************************)
NameTails ==
  { StripOther(toLowerCase(username(u))) : u \in Users } \cup
  { <<"a", "-", "b">>, <<"x">> \o ClosedPre, TicketPre \o <<"x">>, ClaimedPre \o <<"x">>,
    ClosedPre \o TicketPre \o <<"x">>, ClosedPre \o ClaimedPre \o <<"x">> }

OpenNames == { pre \o tail : pre \in {TicketPre, ClaimedPre}, tail \in NameTails }

NameInit ==
  /\ \E cfg \in {c \in PanelConfigs : c.questions = <<>>} :
       /\ panels = (PanelNo :> IncrementedPanel(CommittedPanel(PanelNo, cfg)))
       /\ posted = (1 :> Some(Rendered(CommittedPanel(PanelNo, cfg))))
  /\ tickets = (OpenedTicket.id :> OpenedTicket)
  /\ \E name \in OpenNames :
       channels = (1 :> [name |-> name, parent |-> "cat-open",
                         ownerAccess |-> TRUE, welcome |-> Some(1), buttons |-> "open",
                       overwrite |-> DefaultOverwrite])
  /\ procs = [i \in Slots |-> Idle]
  /\ ops = 0
  /\ reports = <<>>
  /\ modals = {}
  /\ preClose = <<>>
  /\ preClaim = <<>>
  /\ overlap = FALSE
  /\ autosaves = <<>>
  /\ inflight = <<>>
  /\ session = <<>>
  /\ GovernorIdle

NameNext ==
  \/ \E t \in DOMAIN tickets : CloseTicket("s1", t) \/ ReopenTicket("s1", t)
  \/ \E i \in Slots :
       \/ CloseGetPanel(i) \/ CloseFetch(i) \/ CloseRename(i) \/ CloseMove(i)
       \/ ClosePerm(i) \/ CloseSave(i) \/ CloseUpdate(i)
       \/ ReopenGetPanel(i) \/ ReopenFetch(i) \/ ReopenRename(i) \/ ReopenMove(i)
       \/ ReopenPerm(i) \/ ReopenSave(i) \/ ReopenUpdate(i)

NameSpec == NameInit /\ [][NameNext]_vars


(***************************************************************************)
(* Deploying a panel: a color edit, Finish, the question about a           *)
(* replacement message and its two answers, the panel message deleted by   *)
(* a member at any moment, and the writes left in flight.  A behaviour     *)
(* begins as in PanelInit.                                                 *)
(***************************************************************************)
DeployNext ==
  \/ \E u \in WizardUsers :
       \/ WizardEdit(u, "color") \/ FinishSetup(u)
       \/ SendNewMessage(u) \/ CancelNewMessage(u)
  \/ \E i \in Slots :
       \/ EditSave(i) \/ EditRender(i)
       \/ FinishCheck(i) \/ FinishReread(i) \/ FinishSave(i) \/ FinishDelete(i)
       \/ FinishDeploy(i) \/ AskToSendNewMessage(i) \/ FinishReply(i)
       \/ SendPost(i) \/ SendSave(i) \/ SendDelete(i)
  \/ \E k \in DOMAIN inflight : Land(k)
  \/ \E m \in DOMAIN posted : DeleteMessage(m)

DeploySpec == PanelInit /\ [][DeployNext]_vars


(***************************************************************************)
(* The deployed panel under ticket creations while the wizard edits it:    *)
(* the steps of PanelNext and the wizard's color selection.                *)
(***************************************************************************)
CounterNext ==
  \/ PanelNext
  \/ \E u \in WizardUsers : WizardEdit(u, "color")
  \/ \E i \in Slots : EditSave(i) \/ EditRender(i)

CounterSpec == PanelInit /\ [][CounterNext]_vars


(***************************************************************************)
(* Editing a deployed panel: the wizard's edit-select, its color           *)
(* selection, Finish, and the writes left in flight.  A behaviour begins   *)
(* with a deployed panel as the wizard can have committed it: the owner    *)
(* may or may not close, and up to two questions of either type were added.*)
(***************************************************************************)
EditablePanels ==
  { [CommittedPanel(PanelNo, cfg) EXCEPT
       !.questions = AddedQuestions(types).questions,
       !.customQuestions = AddedQuestions(types).customQuestions] :
      cfg \in {[c EXCEPT !.questions = <<>>] : c \in PanelConfigs},
      types \in TypeLists(2) }

EditInit ==
  /\ \E panel \in EditablePanels :
       /\ panels = (PanelNo :> panel)
       /\ posted = (1 :> Some(Rendered(panel)))
  /\ tickets = <<>>
  /\ channels = <<>>
  /\ procs = [i \in Slots |-> Idle]
  /\ ops = 0
  /\ reports = <<>>
  /\ modals = {}
  /\ preClose = <<>>
  /\ preClaim = <<>>
  /\ overlap = FALSE
  /\ autosaves = <<>>
  /\ inflight = <<>>
  /\ session = <<>>
  /\ GovernorIdle

EditNext ==
  \/ \E u \in WizardUsers :
       \/ \E n \in DOMAIN panels : EditSelect(u, n)
       \/ WizardEdit(u, "color")
       \/ FinishSetup(u)
  \/ \E i \in Slots :
       \/ EditSave(i) \/ EditRender(i)
       \/ FinishCheck(i) \/ FinishReread(i) \/ FinishSave(i) \/ FinishDelete(i)
       \/ FinishDeploy(i) \/ AskToSendNewMessage(i) \/ FinishReply(i)
  \/ \E k \in DOMAIN inflight : Land(k)

EditSpec == EditInit /\ [][EditNext]_vars


(***************************************************************************)
(* Ticket creation when a call of createTicketChannel can throw: the Open  *)
(* button, the intake modal, the steps of the creation and their failure.  *)
(***************************************************************************)
CreateFaultNext ==
  \/ \E u \in Users, n \in DOMAIN panels : OpenTicket(u, n) \/ QuestionModal(u, n)
  \/ \E i \in Slots :
       \/ OpenCheck(i)
       \/ CreateGenId(i) \/ CreateChannel(i) \/ CreateSaveTicket(i)
       \/ CreateSavePanel(i) \/ CreateWelcome(i) \/ CreateSaveWelcome(i)
       \/ CreateFails(i)

CreateFaultSpec == Init /\ [][CreateFaultNext]_vars


(***************************************************************************)
(* The lifecycle of one open ticket when every platform call succeeds: any *)
(* interleaving of the staff member's Close, Reopen, Claim and Unclaim in  *)
(* which each setName and setParent goes through.                          *)
(***************************************************************************)
\* the channel of the handler's ticket has the name after the step
Renamed(i, name) == channels'[Val(procs[i].ticket).channelId].name = name

CalmNext ==
  \/ \E t \in DOMAIN tickets :
       \/ CloseTicket("s1", t) \/ ReopenTicket("s1", t)
       \/ ClaimTicket("s1", t) \/ UnclaimTicket("s1", t)
  \/ \E i \in Slots :
       \/ CloseGetPanel(i) \/ CloseFetch(i)
       \/ CloseRename(i) /\ procs'[i].renameOk
       \/ CloseMove(i) /\ procs'[i].moveOk
       \/ ClosePerm(i) \/ CloseSave(i) \/ CloseUpdate(i)
       \/ ReopenGetPanel(i) \/ ReopenFetch(i)
       \/ ReopenRename(i) /\ procs'[i].renameOk
       \/ ReopenMove(i) /\ procs'[i].moveOk
       \/ ReopenPerm(i) \/ ReopenSave(i) \/ ReopenUpdate(i)
       \/ ClaimGetPanel(i) \/ ClaimSave(i)
       \/ ClaimRename(i) /\ Renamed(i, ClaimedName(procs[i].user))
       \/ UnclaimSave(i)
       \/ UnclaimRename(i) /\ Renamed(i, UnclaimedName(Val(procs[i].ticket).owner))

CalmSpec == ClaimInit /\ [][CalmNext]_vars


(***************************************************************************)
(* The owner's permission overwrite over the lifecycle of one open ticket, *)
(* every platform call succeeding.  A behaviour begins with a panel whose  *)
(* user permissions are a selection the wizard accepts, and with the       *)
(* ticket's channel as the creation set it up.                             *)
(***************************************************************************)
UserPermissionChoices ==
  { {},
    {"ViewChannel", "SendMessages", "ReadMessageHistory", "AttachFiles"},
    {"SendMessages", "AttachFiles"} }

PermInit ==
  /\ \E cfg \in {c \in PanelConfigs : c.questions = <<>>}, perms \in UserPermissionChoices :
       LET panel == [CommittedPanel(PanelNo, cfg) EXCEPT !.userPermissions = perms]
       IN /\ panels = (PanelNo :> IncrementedPanel(panel))
          /\ posted = (1 :> Some(Rendered(panel)))
          /\ channels = (1 :> [name |-> TicketChannelName("u1"), parent |-> "cat-open",
                               ownerAccess |-> TRUE, welcome |-> Some(1), buttons |-> "open",
                               overwrite |-> CreatedOverwrite(perms)])
  /\ tickets = (OpenedTicket.id :> OpenedTicket)
  /\ procs = [i \in Slots |-> Idle]
  /\ ops = 0
  /\ reports = <<>>
  /\ modals = {}
  /\ preClose = <<>>
  /\ preClaim = <<>>
  /\ overlap = FALSE
  /\ autosaves = <<>>
  /\ inflight = <<>>
  /\ session = <<>>
  /\ GovernorIdle

PermSpec == PermInit /\ [][CalmNext]_vars


(***************************************************************************)
(* The questions of a draft: the wizard's add-question modal and its       *)
(* delete-question menu in any order, and the writes left in flight.  A    *)
(* behaviour begins with no draft.                                         *)
(***************************************************************************)
DraftTexts == {"q1", "q2"}
QuestionTypes == {"primary", "optional"}

DraftNext ==
  \/ \E u \in WizardUsers :
       \/ \E text \in DraftTexts, type \in QuestionTypes : AddQuestion(u, text, type)
       \/ \E index \in 0..(MaxOps - 1) : DeleteQuestion(u, index)
  \/ \E i \in Slots : EditSave(i) \/ EditRender(i)
  \/ \E k \in DOMAIN inflight : Land(k)

DraftSpec == RouterInit /\ [][DraftNext]_vars


(***************************************************************************)
(* Claims about the ticket lifecycle                                       *)
(***************************************************************************)
\* C1: once every handler has returned, the panel's ticketsCreated equals its
\* value before (0) plus the number of creations that reported success.
C1_CounterCountsCreations ==
  Active = {} => panels[PanelNo].ticketsCreated = Count("created", PanelNo)

\* C2: at every instant a user owns at most one open ticket of a panel.
C2_OneOpenTicketPerOwnerAndPanel ==
  \A u \in Users : Cardinality(existingTickets(u, PanelNo)) <= 1

\* C3: of the Close requests made on a ticket since it was last opened, at most
\* one reports "Ticket closed successfully."; the others are told it is closed.
C3_OneCloseSucceeds ==
  \A t \in DOMAIN tickets : Count("closed", t) <= Count("reopened", t) + 1

\* C4: a Close that has fetched the channel ends only after its save, and the
\* save stores state closed with a closing time whether or not the rename and
\* the move succeeded.
C4_CloseSavesDespiteFailure ==
  [][\A i \in Slots :
       procs[i].pc \in {"close_rename", "close_move", "close_perm", "close_save"} =>
         /\ procs'[i].pc # "idle"
         /\ (At(i, "close_save") /\ procs'[i].pc # "close_save") =>
              /\ tickets'[procs[i].arg].state = "closed"
              /\ IsSet(tickets'[procs[i].arg].closedAt)]_vars

\* C4 witness: a Close whose rename and move both failed has stored state closed.
C4_Witness ==
  \E i \in Slots :
    /\ At(i, "close_update") /\ ~procs[i].renameOk /\ ~procs[i].moveOk
    /\ tickets[procs[i].arg].state = "closed"

\* C5: when Reopen saves a ticket that Close closed (handlers run one after the
\* other), the stored ticket is open, has no closedAt and no closeMessageId, and
\* has the welcomeMessageId it had before the Close.
C5_CloseThenReopen ==
  \A i \in Slots :
    (At(i, "reopen_update") /\ ~overlap) =>
      LET t == procs[i].arg IN
        /\ tickets[t].state = "open"
        /\ tickets[t].closedAt = None
        /\ tickets[t].closeMessageId = None
        /\ t \in DOMAIN preClose
        /\ tickets[t].welcomeMessageId = Val(preClose[t]).welcomeMessageId

\* C5 witness: a Reopen has saved a ticket that had a welcome message when closed.
C5_Witness ==
  \E i \in Slots :
    /\ At(i, "reopen_update") /\ ~overlap
    /\ procs[i].arg \in DOMAIN preClose
    /\ IsSet(Val(preClose[procs[i].arg]).welcomeMessageId)
    /\ tickets[procs[i].arg].state = "open"

\* C6: when Unclaim ends with its rename done (handlers run one after the
\* other), the ticket has no claimant and its channel has the name it had
\* before the Claim.
C6_ClaimThenUnclaim ==
  [][\A i \in Slots :
       (At(i, "unclaim_rename") /\ ~overlap /\ procs'[i].pc = "idle" /\ reports' # reports) =>
         LET t == procs[i].arg IN
           /\ tickets'[t].claimedBy = None
           /\ t \in DOMAIN preClaim
           /\ channels'[tickets'[t].channelId].name = preClaim[t]]_vars

(***************************************************************************)
(* Claims about the wizard and the import                                  *)
(***************************************************************************)
\* C7: a Finish whose draft lacks name, channel, openCategory or staffRole gets
\* no further than the validation, and the step that rejects it leaves every
\* Panel and every Autosave as it was.
C7_FinishRejected ==
  [][\A i \in Slots :
       (procs[i].kind = "finish"
          /\ \E f \in {"name", "channel", "openCategory", "staffRole"} :
               ~IsSet(Val(procs[i].data)[f])) =>
         /\ At(i, "finish_check")
         /\ procs'[i].pc # "finish_check" =>
              /\ procs'[i].pc = "idle"
              /\ panels' = panels
              /\ autosaves' = autosaves]_vars

\* C7 witness: a Finish was rejected while the draft, which has a channel but
\* no name, is still stored.
C7_Witness ==
  /\ Count("rejected", 0) > 0
  /\ \E u \in DOMAIN autosaves :
       IsSet(autosaves[u].data.channel) /\ ~IsSet(autosaves[u].data.name)

\* C8: when Cancel was the last wizard interaction handled (handlers run one
\* after the other) and none is running, the store holds no Autosave of the user.
C8_CancelDropsDraft ==
  (session = <<"cancel">> /\ Active = {} /\ ~overlap) =>
    \A u \in WizardUsers : u \notin DOMAIN autosaves

\* C9: when the last two edits handled were the color (Danger) and then the
\* name (Support), handlers running one after the other, the panel Finish has
\* committed and the message it has posted carry Danger and Support.
C9_EditsReachPanel ==
  \A i \in Slots :
    (At(i, "finish_reply") /\ ~overlap /\ Len(session) >= 2
       /\ SubSeq(session, Len(session) - 1, Len(session)) = <<"color", "name">>) =>
      LET panel == Val(procs[i].panel) IN
        /\ panel.color = "Danger" /\ panel.name = Some("Support")
        /\ panels[panel.id].color = "Danger" /\ panels[panel.id].name = Some("Support")
        /\ (IsSet(panel.messageId) /\ posted[Val(panel.messageId)] # None) =>
             /\ Val(posted[Val(panel.messageId)]).style = "Danger"
             /\ Val(posted[Val(panel.messageId)]).title.name = Some("Support")

\* C10: the save of an import adds a Panel under an id no Panel had, disabled
\* and with no channel, category or role, and leaves every other Panel as it was.
C10_ImportAddsDisabledPanel ==
  [][\A i \in Slots :
       (At(i, "import_save") /\ procs'[i].pc = "idle") =>
         LET n == procs[i].tid IN
           /\ n \notin DOMAIN panels
           /\ panels'[n].enabled = FALSE
           /\ \A f \in {"channel", "openCategory", "closeCategory", "staffRole",
                        "logsChannel", "transcriptChannel"} : panels'[n][f] = None
           /\ \A m \in DOMAIN panels : panels'[m] = panels[m]]_vars

(***************************************************************************)
(* Claims about the router                                                 *)
(***************************************************************************)
Routes == {i \in Slots : procs[i].kind = "route"}

C12_AcknowledgmentsLegal ==
  \A i \in Routes : ~procs[i].data.illegal

(***************************************************************************)
(* Claims about permissions, concurrency and state of tickets              *)
(***************************************************************************)
\* C13: the step the Open button's handler takes after its uniqueness check
\* creates nothing and ends the handler when the panel has intake questions, and
\* goes straight on to the creation when it has none; a channel or a ticket of
\* a panel with questions is created only by the handler of a submitted modal.
C13_QuestionsBeforeCreation ==
  [][ /\ \A i \in Slots :
           (procs[i].kind = "open" /\ At(i, "open_check") /\ procs'[i] # procs[i]) =>
             IF Len(Val(procs[i].panel).questions) > 0
             THEN procs'[i].pc = "idle" /\ tickets' = tickets /\ channels' = channels
             ELSE existingTickets(procs[i].user, procs[i].arg) = {} =>
                    procs'[i].pc = "create_genId"
      /\ (DOMAIN channels' # DOMAIN channels \/ DOMAIN tickets' # DOMAIN tickets) =>
           \E i \in Slots :
             /\ procs[i].kind \in {"open", "answer"}
             /\ procs'[i] # procs[i]
             /\ Len(Val(procs[i].panel).questions) > 0 => procs[i].kind = "answer"
    ]_vars

\* C13 witness: the first channel exists and was created for a submitted modal,
\* no ticket being stored yet.
C13_Witness ==
  /\ \E i \in Slots : procs[i].kind = "answer" /\ At(i, "create_saveTicket")
  /\ Cardinality(DOMAIN channels) = 1
  /\ tickets = <<>>

\* C14: a Close by an actor who is neither the owner with owner-close permitted
\* nor staff is rejected: its handler never gets past the permission check to
\* the channel and the ticket.
C14_CloseNeedsStanding ==
  \A i \in Slots :
    (procs[i].kind = "close" /\ procs[i].pc \notin {"idle", "close_getPanel"}) =>
      canCloseTicket(procs[i].user, Val(procs[i].ticket), Val(procs[i].panel))

\* C15: a Claim goes on only for a ticket it read as unclaimed and an actor
\* with staff standing, an Unclaim only for a ticket it read as claimed and an
\* actor who is the claimant or holds the override; claimedBy is written by
\* such handlers only.
C15_ClaimAndUnclaimRejections ==
  [][ /\ \A i \in Slots :
           /\ (procs[i].pc = "idle" /\ procs'[i].kind = "claim") =>
                ~IsSet(tickets[procs'[i].arg].claimedBy)
           /\ (procs[i].pc = "claim_getPanel" /\ procs'[i].pc = "claim_save") =>
                (HasRole(procs[i].user, StaffRole) \/ procs[i].user = "a1")
           /\ (procs[i].pc = "idle" /\ procs'[i].kind = "unclaim") =>
                /\ IsSet(tickets[procs'[i].arg].claimedBy)
                /\ procs'[i].user \in {Val(tickets[procs'[i].arg].claimedBy), "a1"}
      /\ (\E t \in DOMAIN tickets : tickets'[t].claimedBy # tickets[t].claimedBy) =>
           \E i \in Slots : procs[i].pc \in {"claim_save", "unclaim_save"} /\ procs'[i] # procs[i]
    ]_vars

\* C15 witness: one request was made and turned away: no handler runs, nothing
\* was reported done and the ticket is unclaimed as before.
C15_Witness ==
  /\ ops = 1 /\ Active = {} /\ reports = <<>>
  /\ \A t \in DOMAIN tickets : ~IsSet(tickets[t].claimedBy)

\* C16: a claim is written only over an unclaimed ticket: no Claim handler saves
\* its claimant while the stored ticket names a claimant already.
C16_ClaimExclusive ==
  [][ \A i \in Slots :
        (procs[i].pc = "claim_save" /\ procs'[i].pc = "claim_rename") =>
          ~IsSet(tickets[procs[i].arg].claimedBy)
    ]_vars

(***************************************************************************)
(* Claims about the stored panel and its message                           *)
(***************************************************************************)
\* C17: the save by which Finish commits an edit leaves the stored panel's
\* ticketsCreated and messageId as they are at that moment.
C17_EditKeepsCounterAndMessage ==
  [][ \A i \in Slots :
        ( /\ procs[i].pc = "finish_save" /\ procs'[i].pc = "finish_delete"
          /\ isEdit(Val(procs[i].data))
          /\ procs[i].tid \in DOMAIN panels ) =>
          /\ panels'[procs[i].tid].ticketsCreated = panels[procs[i].tid].ticketsCreated
          /\ panels'[procs[i].tid].messageId = panels[procs[i].tid].messageId
    ]_vars

\* C18: no panel has two live panel messages.
C18_OneLiveMessage ==
  \A n \in DOMAIN panels : Cardinality(LiveMessages(n)) <= 1

\* C19: no step lowers the stored ticketsCreated of a panel.
C19_CounterNeverDecreases ==
  [][ \A n \in DOMAIN panels \cap DOMAIN panels' :
        panels'[n].ticketsCreated >= panels[n].ticketsCreated ]_vars

\* C20: a stored ticket's state is open or closed, a new ticket is open, and a
\* step changes a ticket's state only from open to closed by the save of Close
\* or from closed to open by the save of Reopen: the saves of the creation, of
\* Claim and of Unclaim leave it as it is.
C20_StateTransitions ==
  [][ /\ \A t \in DOMAIN tickets' :
           /\ tickets'[t].state \in {"open", "closed"}
           /\ t \notin DOMAIN tickets => tickets'[t].state = "open"
      /\ \A t \in DOMAIN tickets \cap DOMAIN tickets' :
           tickets'[t].state # tickets[t].state =>
             \E i \in Slots :
               /\ procs'[i] # procs[i]
               /\ procs[i].arg = t
               /\ \/ /\ procs[i].pc = "close_save"
                     /\ tickets[t].state = "open" /\ tickets'[t].state = "closed"
                  \/ /\ procs[i].pc = "reopen_save"
                     /\ tickets[t].state = "closed" /\ tickets'[t].state = "open"
    ]_vars

(***************************************************************************)
(* Claims about the intake questions                                       *)
(***************************************************************************)
\* C21: the modal an Open has put up shows at most 5 questions, and they are the
\* first 5 of the configured questions taken with every primary-type question
\* ahead of every optional-type one.
C21_ModalQuestions ==
  \A m \in modals :
    LET panel == panels[m[2]]
        shown == questionsToShow(panel)
        sorted == PrimaryFirst(panel.customQuestions)
    IN /\ Len(shown) <= 5
       /\ shown = SubSeq(sorted, 1, IF Len(sorted) < 5 THEN Len(sorted) ELSE 5)

(***************************************************************************)
(* Claims about failures                                                   *)
(***************************************************************************)
\* C22: when the store write of a Close or a Reopen fails, the handler has not
\* renamed the channel, has not moved it, and the owner's access to the channel
\* is what it is for the state the ticket keeps.
C22_SaveIsCommitPoint ==
  [][ \A i \in Slots :
        ( /\ procs[i].pc \in {"close_save", "reopen_save"}
          /\ procs'[i].pc = "idle" ) =>
          /\ ~procs[i].renameOk
          /\ ~procs[i].moveOk
          /\ channels[procs[i].chan].ownerAccess = (procs[i].kind = "close")
    ]_vars

(***************************************************************************)
(* Claims about the rate governor                                          *)
(***************************************************************************)
Returned == {i \in Slots : Governed(i) /\ At(i, "gov_returned")}

C24_HungCallReturns ==
  \A i \in Slots :
    /\ Governed(i) /\ (At(i, "gov_wait") \/ At(i, "gov_race"))
         => now - GovCall(i).entered <= MinDelay + Timeout
    /\ i \in Returned => GovCall(i).took <= MinDelay + Timeout

\* a call that slept the whole delay and then hung has returned a failure
C24_Witness ==
  \E i \in Returned :
    /\ GovCall(i).result = [success |-> FALSE, error |-> Some("timed_out"), thrown |-> FALSE]
    /\ GovCall(i).took = MinDelay + Timeout

\* C25: on one channel, two calls of operation() through the governor are at
\* least the minimum delay apart.
C25_CallsSpaced == \A c \in DOMAIN issued : ~issued[c].early

(***************************************************************************)
(* Claims about missing records and transcripts                            *)
(***************************************************************************)
\* C26: a ticket operation (open, intake submission, close, reopen, claim,
\* unclaim, transcript) that does not find its Ticket or its Panel tells the
\* member so and ends with the store as it was.
C26_NotFoundIsNoticed ==
  [][\A r \in NotFound, id \in {PanelNo} \cup TicketRefs :
       LET after == IF <<r, id>> \in DOMAIN reports' THEN reports'[<<r, id>>] ELSE 0
       IN after > Count(r, id) => r # "silent" /\ UNCHANGED <<panels, tickets>>]_vars

\* C27: only a transcript generated on demand goes to the panel's logs channel;
\* the generation that Close schedules never sends there.
C27_AutoTranscriptNotLogged == \A t \in DOMAIN tickets : Count("auto_logged", t) = 0

\* C28: for every ticket state and actor, the close and claim commands take on
\* exactly the requests the buttons take on.
C28_CommandsMatchButtons ==
  \A u \in Users, t \in DOMAIN tickets :
    LET ticket == tickets[t]
        panel == panels[ticket.panelId]
    IN /\ SlashCloses(u, ticket, panel) = ButtonCloses(u, ticket, panel)
       /\ PrefixCloses(u, ticket, panel) = ButtonCloses(u, ticket, panel)
       /\ SlashClaims(u, ticket, panel) = ButtonClaims(u, ticket, panel)

\* C29: for every name a ticket channel can have while open, ticket-... or
\* claimed-..., the name Reopen computes from the name Close computed is the
\* name before the Close.
C29_ReopenInvertsClose ==
  \A c \in DOMAIN channels :
    LET name == channels[c].name
    IN name \in OpenNames => ReopenedName(ClosedName(name)) = name

\* a Reopen whose rename went through has put a claimed- name back on the
\* channel that a Close had renamed
C29_Witness ==
  \E i \in Slots, c \in DOMAIN channels :
    /\ procs[i].kind = "reopen" /\ procs[i].pc = "reopen_save" /\ procs[i].renameOk
    /\ procs[i].chan = c
    /\ channels[c].name = procs[i].newName
    /\ channels[c].name \in OpenNames
    /\ startsWith(channels[c].name, ClaimedPre)
    /\ Count("closed", procs[i].arg) = 1

(***************************************************************************)
(* Claims about the wizard's screen transitions                            *)
(***************************************************************************)
\* C30: when a wizard handler draws the next screen, handlers running one after
\* the other, the store already holds the Autosave it has just changed, so the
\* next interaction of the user reads every field set so far, the first edit of
\* a session included.
C30_PersistedBeforeRender ==
  [][\A i \in Slots :
       (At(i, "edit_render") /\ procs'[i].pc = "idle" /\ ~overlap) =>
         /\ procs[i].user \in DOMAIN autosaves
         /\ autosaves[procs[i].user].data = Val(procs[i].data)]_vars

(***************************************************************************)
(* Claims about deploying a panel                                          *)
(***************************************************************************)
\* the user's Autosave holds a panel in its temp-panel slot
Parked(u) == u \in DOMAIN autosaves /\ IsSet(autosaves[u].tempPanel)

\* C31 (held): no step other than a handler's own takes a parked panel out of
\* the Autosave or changes it.
C31_Held ==
  \A u \in WizardUsers :
    (Parked(u) /\ procs' = procs /\ ops' = ops) =>
      u \in DOMAIN autosaves' /\ autosaves'[u].tempPanel = autosaves[u].tempPanel

\* C31 (confirm): the message sent on confirm shows the parked panel, and the
\* panel stored is the parked panel with the id of that message.
C31_Confirmed ==
  \A i \in Slots :
    /\ (At(i, "send_post") /\ procs'[i].pc = "send_save") =>
         \E m \in DOMAIN posted' \ DOMAIN posted : posted'[m] = Some(Rendered(Val(procs[i].panel)))
    /\ (At(i, "send_save") /\ procs'[i].pc = "send_delete") =>
         panels'[Val(procs[i].panel).id] = Val(procs[i].panel)

\* C31 (gone): when the handler of the confirm has returned, and when the cancel
\* has been handled, the user has no Autosave.
C31_Gone ==
  \A i \in Slots :
    (procs[i].kind = "send" /\ procs[i].pc # "idle" /\ procs'[i].pc = "idle") =>
      procs[i].user \notin DOMAIN autosaves'

\* C31: from the question about a replacement message to its answer the built
\* panel stays parked on the Autosave; on confirm that panel is sent and stored;
\* after either answer the Autosave is gone.
C31_TempPanelHeld == [][C31_Held /\ C31_Confirmed /\ C31_Gone]_vars

(***************************************************************************)
(* Claims about creating a ticket                                          *)
(***************************************************************************)
\* the tickets of the panel that are in the store
TicketsOf(panelId) == {t \in DOMAIN tickets : tickets[t].panelId = panelId}

\* C32: any two creations that succeed, concurrent ones included, get distinct
\* ticket ids: there are as many stored tickets as creations that reported
\* success, and the first save of a creation never lands on a stored id.
C32_DistinctTicketIds ==
  /\ [](Count("created", PanelNo) <= Cardinality(TicketsOf(PanelNo)))
  /\ [][\A i \in Slots :
          At(i, "create_saveTicket") /\ procs'[i].pc = "create_savePanel"
            => procs[i].tid \notin DOMAIN tickets]_vars

\* C33: the counter write of a creation changes only ticketsCreated of the
\* stored Panel: every other field, a wizard edit committed during the creation
\* included, is after the write what it was in the store before it.
C33_OnlyCounterWritten ==
  [][\A i \in Slots :
       At(i, "create_savePanel") /\ procs'[i].pc = "create_welcome"
         => LET id == Val(procs[i].panel).id
            IN /\ id \in DOMAIN panels
               /\ [panels'[id] EXCEPT !.ticketsCreated = 0]
                    = [panels[id] EXCEPT !.ticketsCreated = 0]]_vars

(***************************************************************************)
(* Claims about editing a panel                                            *)
(***************************************************************************)
\* C34: when Finish saves the draft that edit-select loaded from the stored
\* panel, with nothing changed in it, every field of the stored Panel is after
\* the save what it was before: allowOwnerClose and the questions with their
\* types included.
C34_EditRoundTrip ==
  [][\A i \in Slots :
       /\ At(i, "finish_save") /\ procs'[i].pc = "finish_delete"
       /\ procs[i].tid \in DOMAIN panels
       /\ Val(procs[i].data) = EditDraft(panels[procs[i].tid])
       => panels'[procs[i].tid] = panels[procs[i].tid]]_vars

\* C35: when every handler has returned, a creation has reported "Failed to
\* create ticket" and none has reported success, no open Ticket is stored and
\* ticketsCreated is what it was before (0), whichever step failed.
C35_FailedCreationLeavesNothing ==
  Active = {} /\ Count("create_failed", PanelNo) > 0 /\ Count("created", PanelNo) = 0
    => /\ \A t \in DOMAIN tickets : tickets[t].state # "open"
       /\ panels[PanelNo].ticketsCreated = 0

(***************************************************************************)
(* Claims about the channel name                                           *)
(***************************************************************************)
\* C36: with every platform call succeeding, once the Close, Reopen, Claim and
\* Unclaim requests made so far have all completed, the channel's name starts
\* with closed- exactly when the stored state of its ticket is closed.
C36_ClosedPrefixIffClosed ==
  Active = {} =>
    \A t \in DOMAIN tickets :
      tickets[t].channelId \in DOMAIN channels =>
        (startsWith(channels[tickets[t].channelId].name, ClosedPre)
           <=> tickets[t].state = "closed")

\* the panel message a stored or in-flight Panel names was sent
SentMessage(panel) == IsSet(panel.messageId) /\ Val(panel.messageId) \in DOMAIN posted

\* C37: when Finish reports that a new panel was created successfully, the
\* stored Panel names a message that was sent, or the write that stores the
\* name is on its way.
C37_CreatedPanelHasMessage ==
  [][\A i \in Slots :
       At(i, "finish_reply") /\ procs'[i].pc = "idle" /\ ~isEdit(Val(procs[i].data))
         => \/ procs[i].tid \in DOMAIN panels /\ SentMessage(panels[procs[i].tid])
            \/ \E k \in DOMAIN inflight :
                 inflight[k][1] = "panel" /\ inflight[k][2] = procs[i].tid
                   /\ SentMessage(inflight[k][3])]_vars

\* C38: in every deploy path, the first Finish, the update in place and the
\* confirmed replacement, the button of the panel message is rendered in the
\* style of the color the handler stores with the panel.
C38_StyleIsStoredColor ==
  [][\A i \in Slots :
       (/\ procs[i].pc \in {"finish_deploy", "send_post"}
        /\ procs'[i] # procs[i] /\ posted' # posted)
         => \E m \in DOMAIN posted' :
              /\ m \notin DOMAIN posted \/ posted'[m] # posted[m]
              /\ posted'[m] # None
              /\ Val(posted'[m]).style = ButtonStyleOf(Val(procs[i].panel).color)]_vars

(***************************************************************************)
(* Claims about the owner's permissions                                    *)
(***************************************************************************)
\* C39: with every platform call succeeding and the requests made one after the
\* other, an open ticket that was closed and reopened has the owner's overwrite
\* the creation gave: the panel's user permissions, or the defaults when none
\* are configured.
C39_ReopenRestoresOverwrite ==
  ~overlap /\ Active = {} =>
    \A t \in DOMAIN tickets :
      (tickets[t].state = "open" /\ Count("reopened", t) > 0) =>
        channels[tickets[t].channelId].overwrite
          = CreatedOverwrite(panels[tickets[t].panelId].userPermissions)

(***************************************************************************)
(* Claims about the questions of a draft                                   *)
(***************************************************************************)
\* C40: after any sequence of add-question and delete-question steps, the
\* stored draft's questions and customQuestions have the same length and the
\* same texts in the same order.
C40_QuestionListsAgree ==
  \A u \in DOMAIN autosaves :
    LET data == autosaves[u].data
    IN /\ Len(data.questions) = Len(data.customQuestions)
       /\ \A k \in 1..Len(data.questions) : data.questions[k] = data.customQuestions[k].text

====
